---- MODULE Spec2Model ----
(***************************************************************************)
(* Model of the firebirust client library's stateful parts:                *)
(*   - the connection pool (src/src/pool.rs): Spec, FairSpec, NewSpec;     *)
(*   - Transaction and its Drop (src/src/transaction.rs): TxnSpec;         *)
(*   - EventAlerter and its worker (src/src/alerter.rs): AlerterSpec.      *)
(*                                                                         *)
(* The pool state (PoolState) is guarded by one mutex; every critical      *)
(* section of the code is one action.  ConnectionPool::get takes the mutex *)
(* several times per loop iteration, so it is split at every lock          *)
(* acquisition: other threads interleave between its steps.  Each          *)
(* specification follows one component and holds the others still.         *)
(***************************************************************************)
EXTENDS Integers, Sequences, FiniteSets, TLC

\* ---------------------------------------------------------------- bounds
MaxTime == 2        \* the monotonic clock runs 0..MaxTime (seconds)
MaxConns == 2       \* physical connections opened over a run
MaxVersion == 1     \* invalidate()/clear() calls over a run
MaxMinSize == 3     \* largest min_size / max_size given to new() when new() itself is followed
MaxCalls == 5       \* calls a run of Transactions makes on the Connection (a drop may add one)
MaxNames == 16      \* longest list of names given to register()
MaxBlocks == 2      \* result blocks one worker receives

\* The threads that call get() and hold guards.
Threads == {1, 2}

\* The PoolOptions given to new() (validate is a no-op in is_valid): a pool of
\* one, a pool of two with one connection opened eagerly, a pool of two opened
\* in full with no lifetime limit, and a pool of one that never waits.
PoolOptions(mn, mx, life, acq) ==
    [min_size |-> mn, max_size |-> mx, connection_lifetime |-> life, acquire_timeout |-> acq]
OptionsGiven ==
    {PoolOptions(0, 1, 1, 1), PoolOptions(1, 2, 1, 1),
     PoolOptions(2, 2, 0, 1), PoolOptions(1, 1, 0, 0)}

NoConn == [id |-> 0, born |-> 0]

VARIABLES
    options,            \* PoolOptions: min_size, max_size, connection_lifetime, acquire_timeout
    available,          \* PoolState.available: FIFO of PooledConnection
    in_use,             \* PoolState.in_use
    invalidate_version, \* PoolState.invalidate_version
    closed,             \* PoolState.closed
    now,                \* Instant::now(), whole seconds
    opened,             \* number of successful Connection::connect calls
    pc,                 \* per thread: position in get() / guard state
    deadline,           \* per thread: local `deadline` of get()
    remaining,          \* per thread: local `remaining` of get(); the wake-up time once waiting
    guard,              \* per thread: PoolGuard.conn, the connection just opened, or
                        \* the connection the caller keeps after take()
    h_started,          \* history: time the current get() began
    h_guardGen,         \* history: invalidate_version when the guard was handed out
    h_handout,          \* history: how the guard got its connection: "new", "queue",
                        \* or "queue_after_stale" (stale entries were discarded first)
    h_sawDrop,          \* history: a guard was dropped while this get() was blocked before its deadline
    h_startedClosed,    \* history: the current get() began after close()
    h_closedWaiting,    \* history: close() ran while this get() was blocked in the wait
    h_taken,            \* history: every connection a caller detached with take()
    h_closedDrop,       \* history: a guard has been dropped after close()
    new_pc,             \* ConnectionPool::new: "connecting", "ok" (the pool exists) or "err"
    txn,                \* the live Transaction: trans_handle and finished (NoTransaction if none)
    conn_calls,         \* the calls the Transaction made on its Connection, in order
    h_dropped,          \* history: handles of the Transactions that have been dropped
    events,             \* EventAlerter.events: the registered names (byte strings)
    event_buffer,       \* EventAlerter.event_buffer
    result_buffer,      \* EventAlerter.result_buffer
    running,            \* EventAlerter.running (shared with the worker)
    last_result,        \* what the last register() or start() returned: "ok", "err" ("none" before)
    handle,             \* EventAlerter.handle is Some(JoinHandle)
    a_pc,               \* the owner of the EventAlerter: "ready", inside stop() ("joining"),
                        \* inside drop ("drop_joining"), or gone ("dropped")
    w_pc,               \* the worker thread's position in event_loop
    w_events,           \* event_loop: `events`, the clone made by start()
    w_buffer,           \* event_loop: the local `event_buffer`
    w_result,           \* event_loop: `result_buffer`, the block wait_for_event returned
    w_fired,            \* event_loop: the part of `fired` not yet passed to the callback
    queued,             \* the EPB given to the latest successful queue_events
    event_id,           \* event_loop: `event_id`, what the latest queue_events returned (0: none yet)
    cancelled,          \* the event ids given to cancel_events, in order
    cb_log,             \* the callback invocations of the current poll cycle, in order
    h_sum,              \* history: per registered entry, the sum of the deltas passed to the callback
    h_blocks,           \* history: result blocks the worker has received
    read_buf,           \* WireChannel.read_buf: decoded bytes not yet returned by read()
    read_trans,         \* WireChannel.read_trans
    write_trans,        \* WireChannel.write_trans
    compressor,         \* WireChannel.compressor: its encoder and its decoder
    compressed,         \* WireChannel.compressed
    writer,             \* WireChannel.writer: the bytes held by the BufWriter
    socket,             \* the bytes given to the socket and not yet taken by the reading side
    sock_closed,        \* the sending side has closed the socket
    r_pc,               \* read(): "idle", or "fill" inside the call
    r_n,                \* read(): its argument n
    r_out,              \* read(): the bytes the last call returned
    r_result,           \* read(): how the last call ended: "ok", "eof", "io", "inflate" ("none" before)
    h_written,          \* history: the bytes given to write(), in order
    h_out,              \* history: the bytes write() handed to the BufWriter, in order
    h_wire,             \* history: the bytes that reached the socket, in order
    h_decoded,          \* history: the bytes read() enqueued in read_buf, in order
    h_read,             \* history: the bytes returned by read(), in order
    peer_comp,          \* the sending peer's own compressed flag and encoder
    h_mark,             \* history: how many bytes the peer had written when it switched (-1: not yet)
    h_plugin            \* history: the plugin name given to the last set_crypt_key ("none" before)

poolVars == <<options, available, in_use, invalidate_version, closed>>
threadVars == <<pc, deadline, remaining, guard>>
histVars == <<h_started, h_guardGen, h_handout, h_sawDrop,
              h_startedClosed, h_closedWaiting, h_taken, h_closedDrop>>
\* The state of the other components, which no pool operation touches.
txnVars == <<txn, conn_calls, h_dropped>>
alerterVars == <<events, event_buffer, result_buffer, running, last_result, handle, a_pc>>
workerVars == <<w_pc, w_events, w_buffer, w_result, w_fired, queued, cb_log, h_sum, h_blocks,
                event_id, cancelled>>
chanVars == <<read_buf, read_trans, write_trans, compressor, compressed, writer, socket,
              sock_closed, r_pc, r_n, r_out, r_result,
              h_written, h_out, h_wire, h_decoded, h_read>>
\* The write half of a peer that switches to compression on its own, and the
\* record of the set_crypt_key calls.
peerVars == <<peer_comp, h_mark>>
keyVars == <<h_plugin>>
nonPoolVars == <<txnVars, alerterVars, workerVars, chanVars, peerVars, keyVars>>
compVars == <<new_pc, nonPoolVars>>
vars == <<poolVars, now, opened, threadVars, histVars, compVars>>
nonTxnVars == <<poolVars, now, opened, threadVars, histVars, new_pc, alerterVars, workerVars,
                chanVars, peerVars, keyVars>>
nonAlerterVars == <<poolVars, now, opened, threadVars, histVars, new_pc, txnVars, chanVars,
                    peerVars, keyVars>>
nonWireVars == <<poolVars, now, opened, threadVars, histVars, new_pc, txnVars, alerterVars,
                 workerVars>>
nonChanVars == <<nonWireVars, peerVars, keyVars>>

\* Positions of a thread outside get(): it holds no guard and may call get().
Rest == {"idle", "closed_err", "timeout_err", "connect_err", "dropped", "taken"}
\* Positions inside get().
InGet == {"check_closed", "try_available", "try_create", "connect", "create_commit",
          "check_deadline", "wait_lock", "waiting"}

\* No Transaction is alive and none has been.
NoTransaction == [trans_handle |-> 0, finished |-> FALSE]
TxnIdle == txn = NoTransaction /\ conn_calls = <<>> /\ h_dropped = {}

\* EventAlerter::new, lines 68-77: nothing registered, no worker.
AlerterIdle ==
    /\ events = <<>> /\ event_buffer = <<>> /\ result_buffer = <<>>
    /\ running = FALSE /\ last_result = "none" /\ handle = FALSE /\ a_pc = "ready"
    /\ event_id = 0 /\ cancelled = <<>>

\* Option<Box<dyn CryptTranslator>>: None, or a translator of the given cipher
\* that has produced `pos` bytes of its key stream.
NoTrans == [some |-> FALSE, plugin |-> "none", pos |-> 0]
Translator(plugin) == [some |-> TRUE, plugin |-> plugin, pos |-> 0]

\* ZlibEncoder::new / ZlibDecoder::new, compression.rs lines 50-51: nothing
\* written yet (no stream header), no byte in the dictionary (last = -1).
NewEncoder == [hdr |-> FALSE, last |-> -1]
NewDecoder == [hdr |-> FALSE, lit |-> FALSE, last |-> -1]

\* Option<WireCompressor>: None, or WireCompressor::new().
NoCompressor == [some |-> FALSE, encoder |-> NewEncoder, decoder |-> NewDecoder]
NewCompressor == [some |-> TRUE, encoder |-> NewEncoder, decoder |-> NewDecoder]

\* WireChannel::new, lines 53-62: no translators, no compression, empty
\* buffers; nothing written or read.
ChannelIdle ==
    /\ read_buf = <<>> /\ read_trans = NoTrans /\ write_trans = NoTrans
    /\ compressor = NoCompressor /\ compressed = FALSE
    /\ writer = <<>> /\ socket = <<>> /\ sock_closed = FALSE
    /\ r_pc = "idle" /\ r_n = 0 /\ r_out = <<>> /\ r_result = "none"
    /\ h_written = <<>> /\ h_out = <<>> /\ h_wire = <<>> /\ h_decoded = <<>> /\ h_read = <<>>
    /\ peer_comp = [on |-> FALSE, encoder |-> NewEncoder] /\ h_mark = -1
    /\ h_plugin = "none"
    /\ w_pc = "idle" /\ w_events = <<>> /\ w_buffer = <<>> /\ w_result = <<>>
    /\ w_fired = <<>> /\ queued = <<>> /\ cb_log = <<>> /\ h_sum = <<>> /\ h_blocks = 0

PooledConnection(c, t, v) == [conn |-> c, created_at |-> t, version |-> v]

\* ----------------------------------------------------------------- new()
\* The min_size connections opened by new(): ids 1..min_size, all at time 0.
RECURSIVE Precreated(_)
Precreated(n) ==
    IF n = 0 THEN <<>>
    ELSE Append(Precreated(n - 1), PooledConnection([id |-> n, born |-> 0], 0, 0))

Init ==
    /\ options \in OptionsGiven
    /\ available = Precreated(options.min_size)
    /\ in_use = 0
    /\ invalidate_version = 0
    /\ closed = FALSE
    /\ now = 0
    /\ opened = options.min_size
    /\ pc = [t \in Threads |-> "idle"]
    /\ deadline = [t \in Threads |-> 0]
    /\ remaining = [t \in Threads |-> 0]
    /\ guard = [t \in Threads |-> NoConn]
    /\ h_started = [t \in Threads |-> 0]
    /\ h_guardGen = [t \in Threads |-> 0]
    /\ h_handout = [t \in Threads |-> "none"]
    /\ h_sawDrop = [t \in Threads |-> FALSE]
    /\ h_startedClosed = [t \in Threads |-> FALSE]
    /\ h_closedWaiting = [t \in Threads |-> FALSE]
    /\ h_taken = {}
    /\ h_closedDrop = FALSE
    /\ new_pc = "ok"
    /\ TxnIdle
    /\ AlerterIdle
    /\ ChannelIdle

\* ConnectionPool::new, lines 174-184: the pool as constructed, before the loop
\* that opens the first connections.  NewOptionsGiven are the options tried:
\* every min_size up to MaxMinSize against every max_size from 1 to MaxMinSize
\* (new() does not compare the two).
NewOptionsGiven ==
    {PoolOptions(mn, mx, 0, 0) : mn \in 0..MaxMinSize, mx \in 1..MaxMinSize}

NewInit ==
    /\ options \in NewOptionsGiven
    /\ available = <<>>
    /\ in_use = 0
    /\ invalidate_version = 0
    /\ closed = FALSE
    /\ now = 0
    /\ opened = 0
    /\ pc = [t \in Threads |-> "idle"]
    /\ deadline = [t \in Threads |-> 0]
    /\ remaining = [t \in Threads |-> 0]
    /\ guard = [t \in Threads |-> NoConn]
    /\ h_started = [t \in Threads |-> 0]
    /\ h_guardGen = [t \in Threads |-> 0]
    /\ h_handout = [t \in Threads |-> "none"]
    /\ h_sawDrop = [t \in Threads |-> FALSE]
    /\ h_startedClosed = [t \in Threads |-> FALSE]
    /\ h_closedWaiting = [t \in Threads |-> FALSE]
    /\ h_taken = {}
    /\ h_closedDrop = FALSE
    /\ new_pc = "connecting"
    /\ TxnIdle
    /\ AlerterIdle
    /\ ChannelIdle

\* The loop of new() as it would be if a failed connect ended it with Ok(pool).
new_connect_swallows_error ==
    /\ new_pc = "connecting"
    /\ opened < options.min_size
    /\ \/ /\ opened' = opened + 1
          /\ available' = Append(available,
                 PooledConnection([id |-> opened + 1, born |-> now], now, 0))
          /\ UNCHANGED new_pc
       \/ /\ new_pc' = "ok"
          /\ UNCHANGED <<available, opened>>
    /\ UNCHANGED <<options, in_use, invalidate_version, closed, now, threadVars, histVars>>
    /\ UNCHANGED nonPoolVars

\* new(), lines 187-195: one iteration of `for _ in 0..options.min_size`.
\* Connection::connect either returns a connection, which is pushed to the back
\* of the queue stamped with the time and version 0, or fails: `?` returns the
\* error and the pool under construction is dropped with what it held.
NewConnect ==
    /\ new_pc = "connecting"
    /\ opened < options.min_size
    /\ \/ /\ opened' = opened + 1
          /\ available' = Append(available,
                 PooledConnection([id |-> opened + 1, born |-> now], now, 0))
          /\ UNCHANGED new_pc
       \/ /\ new_pc' = "err"
          /\ available' = <<>>
          /\ UNCHANGED opened
    /\ UNCHANGED <<options, in_use, invalidate_version, closed, now, threadVars, histVars>>
    /\ UNCHANGED nonPoolVars
    /\ UNCHANGED nonPoolVars

\* new(), line 197: the loop is over, Ok(pool).
NewReturn ==
    /\ new_pc = "connecting"
    /\ opened = options.min_size
    /\ new_pc' = "ok"
    /\ UNCHANGED <<poolVars, now, opened, threadVars, histVars, nonPoolVars>>

\* ------------------------------------------------------------- is_valid
is_valid_lifetime_only(pooled, current_version) ==
    ~(options.connection_lifetime > 0
      /\ now - pooled.created_at > options.connection_lifetime)

is_valid(pooled, current_version) ==
    /\ ~(options.connection_lifetime > 0
         /\ now - pooled.created_at > options.connection_lifetime)
    /\ ~(pooled.version < current_version)

\* The while-let loop of try_get_available: pop the front while it is invalid.
\* The result is the queue starting at the first valid entry (empty if none).
RECURSIVE PopInvalid(_, _)
PopInvalid(q, current_version) ==
    IF q = <<>> THEN <<>>
    ELSE IF is_valid(Head(q), current_version) THEN q
    ELSE PopInvalid(Tail(q), current_version)

\* What a get() that returns leaves behind in its locals and history.
ClearLocals(t) ==
    /\ deadline' = [deadline EXCEPT ![t] = 0]
    /\ remaining' = [remaining EXCEPT ![t] = 0]
    /\ h_started' = [h_started EXCEPT ![t] = 0]
    /\ h_sawDrop' = [h_sawDrop EXCEPT ![t] = FALSE]

\* ------------------------------------------------------------------ get
\* get(), line 218: `state.closed` as read under the mutex.
pool_closed_unchecked == FALSE

pool_closed == closed

\* get(), lines 211-221: on entry the deadline is computed; then, at the top of
\* every loop iteration, the closed check in its own critical section.
GetCheckClosed(t) ==
    /\ pc[t] \in Rest \cup {"check_closed"}
    /\ IF pool_closed
       THEN /\ pc' = [pc EXCEPT ![t] = "closed_err"]
            /\ ClearLocals(t)
       ELSE /\ pc' = [pc EXCEPT ![t] = "try_available"]
            /\ deadline' = [deadline EXCEPT ![t] =
                    IF pc[t] \in Rest THEN now + options.acquire_timeout ELSE @]
            /\ h_started' = [h_started EXCEPT ![t] = IF pc[t] \in Rest THEN now ELSE @]
            /\ UNCHANGED <<remaining, h_sawDrop>>
    /\ h_startedClosed' = [h_startedClosed EXCEPT ![t] =
            IF pc[t] \in Rest THEN closed ELSE @]
    /\ h_closedWaiting' = [h_closedWaiting EXCEPT ![t] =
            IF pc[t] \in Rest THEN FALSE ELSE @]
    /\ guard' = [guard EXCEPT ![t] = NoConn]   \* a connection kept after take() is let go
    /\ UNCHANGED <<poolVars, now, opened, h_guardGen, h_handout>>
    /\ UNCHANGED <<h_taken, h_closedDrop, compVars>>

\* try_get_available, lines 254-263: the connection found (NoConn if none) and
\* the queue left behind; every entry popped on the way is gone.
try_get_available_peek ==
    LET rest == PopInvalid(available, invalidate_version)
    IN IF rest = <<>> THEN [conn |-> NoConn, queue |-> <<>>]
       ELSE [conn |-> Head(rest).conn, queue |-> rest]

\* try_get_available as it would be if it took the newest valid entry (pop_back).
try_get_available_from_back ==
    LET rest == PopInvalid(available, invalidate_version)
    IN IF rest = <<>> THEN [conn |-> NoConn, queue |-> <<>>]
       ELSE [conn |-> rest[Len(rest)].conn, queue |-> SubSeq(rest, 1, Len(rest) - 1)]

try_get_available ==
    LET rest == PopInvalid(available, invalidate_version)
    IN IF rest = <<>> THEN [conn |-> NoConn, queue |-> <<>>]
       ELSE [conn |-> Head(rest).conn, queue |-> Tail(rest)]

\* try_get_available as called from get(), one critical section.
TryGetAvailable(t) ==
    /\ pc[t] = "try_available"
    /\ LET r == try_get_available
           nskipped == Len(available) - Len(PopInvalid(available, invalidate_version))
       IN /\ available' = r.queue
          /\ IF r.conn # NoConn
             THEN /\ in_use' = in_use + 1
                  /\ guard' = [guard EXCEPT ![t] = r.conn]
                  /\ pc' = [pc EXCEPT ![t] = "holding"]
                  /\ h_guardGen' = [h_guardGen EXCEPT ![t] = invalidate_version]
                  /\ h_handout' = [h_handout EXCEPT ![t] =
                          IF nskipped > 0 THEN "queue_after_stale" ELSE "queue"]
                  /\ ClearLocals(t)
             ELSE /\ pc' = [pc EXCEPT ![t] = "try_create"]
                  /\ UNCHANGED <<in_use, guard, h_guardGen, h_handout,
                                 deadline, remaining, h_started, h_sawDrop>>
    /\ UNCHANGED <<options, invalidate_version, closed, now, opened,
                   h_startedClosed, h_closedWaiting>>
    /\ UNCHANGED <<h_taken, h_closedDrop, compVars>>

\* try_create_new, lines 268-272: the first critical section computes can_create.
TryCreateNewCheck(t) ==
    /\ pc[t] = "try_create"
    /\ LET total == Len(available) + in_use
           can_create == total < options.max_size
       IN pc' = [pc EXCEPT ![t] = IF can_create THEN "connect" ELSE "check_deadline"]
    /\ UNCHANGED <<poolVars, now, opened, deadline, remaining, guard, histVars>>
    /\ UNCHANGED compVars

\* try_create_new as it would be if it counted the connection before connecting
\* and left the count in place when the connect failed.
connect_failure_counted(t) ==
    /\ pc[t] = "connect"
    /\ \/ /\ opened < MaxConns
          /\ opened' = opened + 1
          /\ guard' = [guard EXCEPT ![t] = [id |-> opened + 1, born |-> now]]
          /\ pc' = [pc EXCEPT ![t] = "create_commit"]
          /\ UNCHANGED <<in_use, deadline, remaining, h_started, h_sawDrop>>
       \/ /\ pc' = [pc EXCEPT ![t] = "connect_err"]
          /\ in_use' = in_use + 1
          /\ ClearLocals(t)
          /\ UNCHANGED <<opened, guard>>
    /\ UNCHANGED <<options, available, invalidate_version, closed, now, h_guardGen, h_handout,
                   h_startedClosed, h_closedWaiting>>
    /\ UNCHANGED <<h_taken, h_closedDrop, compVars>>

\* try_create_new, line 275: Connection::connect outside the mutex; it may fail.
TryCreateNewConnect(t) ==
    /\ pc[t] = "connect"
    /\ \/ /\ opened < MaxConns
          /\ opened' = opened + 1
          /\ guard' = [guard EXCEPT ![t] = [id |-> opened + 1, born |-> now]]
          /\ pc' = [pc EXCEPT ![t] = "create_commit"]
          /\ UNCHANGED <<deadline, remaining, h_started, h_sawDrop>>
       \/ /\ pc' = [pc EXCEPT ![t] = "connect_err"]
          /\ ClearLocals(t)
          /\ UNCHANGED <<opened, guard>>
    /\ UNCHANGED <<poolVars, now, h_guardGen, h_handout,
                   h_startedClosed, h_closedWaiting>>
    /\ UNCHANGED <<h_taken, h_closedDrop, compVars>>

\* try_create_new, lines 276-278: the second critical section counts the connection.
TryCreateNewCommit(t) ==
    /\ pc[t] = "create_commit"
    /\ in_use' = in_use + 1
    /\ pc' = [pc EXCEPT ![t] = "holding"]
    /\ h_guardGen' = [h_guardGen EXCEPT ![t] = invalidate_version]
    /\ h_handout' = [h_handout EXCEPT ![t] = "new"]
    /\ ClearLocals(t)
    /\ UNCHANGED <<options, available, invalidate_version, closed, now, opened, guard,
                    h_startedClosed, h_closedWaiting>>
    /\ UNCHANGED <<h_taken, h_closedDrop, compVars>>

\* get(), line 240: `Instant::now() >= deadline`.
deadline_reached_always(t) == TRUE

deadline_reached(t) == now >= deadline[t]

\* get(), lines 240-244: the deadline check and the remaining budget.
GetCheckDeadline(t) ==
    /\ pc[t] = "check_deadline"
    /\ IF deadline_reached(t)
       THEN /\ pc' = [pc EXCEPT ![t] = "timeout_err"]
            /\ ClearLocals(t)
       ELSE /\ pc' = [pc EXCEPT ![t] = "wait_lock"]
            /\ remaining' = [remaining EXCEPT ![t] = deadline[t] - now]
            /\ UNCHANGED <<deadline, h_started, h_sawDrop>>
    /\ UNCHANGED <<poolVars, now, opened, guard, h_guardGen, h_handout,
                   h_startedClosed, h_closedWaiting>>
    /\ UNCHANGED <<h_taken, h_closedDrop, compVars>>

\* get(), lines 245-246: lock, then wait_timeout(state, remaining) releases the
\* mutex and blocks; from here `remaining` holds the time the wait times out.
GetWait(t) ==
    /\ pc[t] = "wait_lock"
    /\ pc' = [pc EXCEPT ![t] = "waiting"]
    /\ remaining' = [remaining EXCEPT ![t] = now + remaining[t]]
    /\ UNCHANGED <<poolVars, now, opened, deadline, guard, histVars>>
    /\ UNCHANGED compVars

\* wait_timeout returns (timed out): the loop goes round to the closed check.
WaitTimeout(t) ==
    /\ pc[t] = "waiting"
    /\ now >= remaining[t]
    /\ pc' = [pc EXCEPT ![t] = "check_closed"]
    /\ remaining' = [remaining EXCEPT ![t] = 0]
    /\ UNCHANGED <<poolVars, now, opened, deadline, guard, histVars>>
    /\ UNCHANGED compVars

\* Condvar::wait_timeout is subject to spurious wake-ups.
SpuriousWakeup(t) ==
    /\ pc[t] = "waiting"
    /\ now < remaining[t]
    /\ pc' = [pc EXCEPT ![t] = "check_closed"]
    /\ remaining' = [remaining EXCEPT ![t] = 0]
    /\ UNCHANGED <<poolVars, now, opened, deadline, guard, histVars>>
    /\ UNCHANGED compVars

Waiters == {t \in Threads : pc[t] = "waiting"}


\* ---------------------------------------------------- return_connection
\* return_connection, lines 310-322: the counter and the queue.
return_connection_no_decrement(conn) ==
    /\ in_use' = in_use
    /\ IF ~closed /\ Len(available) < options.max_size
       THEN available' = Append(available, PooledConnection(conn, now, invalidate_version))
       ELSE available' = available

\* return_connection as it would be if it queued the connection on a closed pool too.
return_connection_ignores_closed(conn) ==
    /\ in_use' = IF in_use > 0 THEN in_use - 1 ELSE 0
    /\ IF Len(available) < options.max_size
       THEN available' = Append(available, PooledConnection(conn, now, invalidate_version))
       ELSE available' = available

return_connection(conn) ==
    /\ in_use' = IF in_use > 0 THEN in_use - 1 ELSE 0
    /\ IF ~closed /\ Len(available) < options.max_size
       THEN available' = Append(available, PooledConnection(conn, now, invalidate_version))
       ELSE available' = available

\* return_connection, line 325: notify_one wakes one blocked get(), if any.
\* It runs in thread t, whose guard is gone afterwards.
notify_one_lost(t) ==
    /\ pc' = [pc EXCEPT ![t] = "dropped"]
    /\ remaining' = remaining

notify_one(t) ==
    IF Waiters = {}
    THEN /\ pc' = [pc EXCEPT ![t] = "dropped"]
         /\ remaining' = remaining
    ELSE \E w \in Waiters :
            /\ pc' = [pc EXCEPT ![t] = "dropped", ![w] = "check_closed"]
            /\ remaining' = [remaining EXCEPT ![w] = 0]

\* Drop for PoolGuard with conn = Some: the whole of return_connection.
DropGuard(t) ==
    /\ pc[t] = "holding"
    /\ return_connection(guard[t])
    /\ notify_one(t)
    /\ guard' = [guard EXCEPT ![t] = NoConn]
    /\ h_sawDrop' = [w \in Threads |->
            \/ h_sawDrop[w]
            \/ /\ pc[w] = "waiting" /\ now < deadline[w]
               /\ available = <<>> /\ in_use = options.max_size /\ ~closed]
    /\ h_guardGen' = [h_guardGen EXCEPT ![t] = 0]
    /\ h_handout' = [h_handout EXCEPT ![t] = "none"]
    /\ UNCHANGED <<options, invalidate_version, closed, now, opened, deadline,
                   h_started, h_startedClosed, h_closedWaiting>>
    /\ h_closedDrop' = (h_closedDrop \/ closed)
    /\ UNCHANGED <<h_taken, compVars>>

\* take() as it would be if the consumed guard still returned its connection.
take_then_return(t) ==
    /\ pc[t] = "holding"
    /\ guard' = guard
    /\ pc' = [pc EXCEPT ![t] = "taken"]
    /\ return_connection(guard[t])
    /\ h_guardGen' = [h_guardGen EXCEPT ![t] = 0]
    /\ h_handout' = [h_handout EXCEPT ![t] = "none"]
    /\ h_taken' = h_taken \cup {guard[t]}
    /\ UNCHANGED h_closedDrop
    /\ UNCHANGED <<options, invalidate_version, closed, now, opened, deadline, remaining,
                   h_started, h_sawDrop, h_startedClosed, h_closedWaiting, compVars>>

\* PoolGuard::take: the connection leaves the guard for the caller, who keeps it
\* until the thread's next get(); Drop then finds conn = None.
Take(t) ==
    /\ pc[t] = "holding"
    /\ guard' = guard
    /\ pc' = [pc EXCEPT ![t] = "taken"]
    /\ h_guardGen' = [h_guardGen EXCEPT ![t] = 0]
    /\ h_handout' = [h_handout EXCEPT ![t] = "none"]
    /\ UNCHANGED <<poolVars, now, opened, deadline, remaining,
                   h_started, h_sawDrop, h_startedClosed, h_closedWaiting>>
    /\ h_taken' = h_taken \cup {guard[t]}
    /\ UNCHANGED h_closedDrop
    /\ UNCHANGED compVars

\* ------------------------------------------- invalidate / clear / close
Invalidate ==
    /\ invalidate_version < MaxVersion
    /\ invalidate_version' = invalidate_version + 1
    /\ UNCHANGED <<options, available, in_use, closed, now, opened, threadVars, histVars>>
    /\ UNCHANGED compVars

\* clear(), lines 340-344, as it would be if it also forgot the guards counted in use.
clear_resets_in_use ==
    /\ invalidate_version < MaxVersion
    /\ invalidate_version' = invalidate_version + 1
    /\ available' = <<>>
    /\ in_use' = 0
    /\ UNCHANGED <<options, closed, now, opened, threadVars, histVars>>
    /\ UNCHANGED compVars

\* clear(), lines 340-344.
Clear ==
    /\ invalidate_version < MaxVersion
    /\ invalidate_version' = invalidate_version + 1
    /\ available' = <<>>
    /\ UNCHANGED <<options, in_use, closed, now, opened, threadVars, histVars>>
    /\ UNCHANGED compVars

\* close(), line 351: notify_all wakes every blocked get().
notify_all_lost == UNCHANGED <<pc, remaining>>

notify_all ==
    /\ pc' = [t \in Threads |-> IF pc[t] = "waiting" THEN "check_closed" ELSE pc[t]]
    /\ remaining' = [t \in Threads |-> IF pc[t] = "waiting" THEN 0 ELSE remaining[t]]

Close ==
    /\ closed' = TRUE
    /\ available' = <<>>
    /\ notify_all
    /\ h_closedWaiting' = [t \in Threads |-> h_closedWaiting[t] \/ pc[t] = "waiting"]
    /\ UNCHANGED <<options, in_use, invalidate_version, now, opened, deadline, guard,
                   h_started, h_guardGen, h_handout, h_sawDrop,
                   h_startedClosed>>
    /\ UNCHANGED <<h_taken, h_closedDrop, compVars>>

\* ---------------------------------------------------------------- clock
\* Time passes; a timed wait returns no later than its timeout.
Tick ==
    /\ now < MaxTime
    /\ \A t \in Waiters : now < remaining[t]
    /\ now' = now + 1
    /\ UNCHANGED <<poolVars, opened, threadVars, histVars>>
    /\ UNCHANGED compVars

GetStep(t) ==
    \/ GetCheckClosed(t)
    \/ TryGetAvailable(t)
    \/ TryCreateNewCheck(t)
    \/ TryCreateNewCommit(t)
    \/ GetCheckDeadline(t)
    \/ GetWait(t)
    \/ WaitTimeout(t)

Next ==
    \/ \E t \in Threads : GetStep(t)
    \/ \E t \in Threads : TryCreateNewConnect(t)
    \/ \E t \in Threads : SpuriousWakeup(t)
    \/ \E t \in Threads : DropGuard(t)
    \/ \E t \in Threads : Take(t)
    \/ Invalidate
    \/ Clear
    \/ Close
    \/ Tick

Spec == Init /\ [][Next]_vars

\* The mutex is fair and a thread that can run does run: every step of get()
\* that only needs the mutex, and every expired timed wait, is eventually taken.
\* Nothing obliges a thread to call get(), to drop a guard, or connect() to return.
GetProgress(t) == pc[t] \notin Rest /\ GetStep(t)

FairSpec == Spec /\ \A t \in Threads : WF_vars(GetProgress(t))

\* ConnectionPool::new step by step, with time passing between the connects.
NewNext ==
    \/ NewConnect
    \/ NewReturn
    \/ Tick

NewSpec == NewInit /\ [][NewNext]_vars

\* ========================================================== Transaction
\* src/src/transaction.rs.  A Transaction borrows its Connection mutably, so a
\* Connection has one explicit Transaction at a time; conn_calls records what
\* each one asks of the Connection: [op, handle, ok].
Call(op, h, ok) == [op |-> op, handle |-> h, ok |-> ok]

\* The handle _begin_trans returns: one the Connection has not given out before.
NextHandle ==
    Cardinality({i \in 1..Len(conn_calls) :
                    conn_calls[i].op = "begin" /\ conn_calls[i].ok}) + 1

\* The pool while the transaction or the alerter is followed: no pool activity.
PoolUnused ==
    /\ options = PoolOptions(0, 1, 0, 0)
    /\ available = <<>>
    /\ in_use = 0
    /\ invalidate_version = 0
    /\ closed = FALSE
    /\ now = 0
    /\ opened = 0
    /\ pc = [t \in Threads |-> "idle"]
    /\ deadline = [t \in Threads |-> 0]
    /\ remaining = [t \in Threads |-> 0]
    /\ guard = [t \in Threads |-> NoConn]
    /\ h_started = [t \in Threads |-> 0]
    /\ h_guardGen = [t \in Threads |-> 0]
    /\ h_handout = [t \in Threads |-> "none"]
    /\ h_sawDrop = [t \in Threads |-> FALSE]
    /\ h_startedClosed = [t \in Threads |-> FALSE]
    /\ h_closedWaiting = [t \in Threads |-> FALSE]
    /\ h_taken = {}
    /\ h_closedDrop = FALSE
    /\ new_pc = "ok"

\* The state the transaction model starts from: a Connection, no Transaction yet.
TxnInit == PoolUnused /\ TxnIdle /\ AlerterIdle /\ ChannelIdle

\* Transaction::new / with_options, lines 144-153: _begin_trans either fails
\* (no Transaction) or returns the handle; finished starts false.
TxnNew ==
    /\ txn = NoTransaction
    /\ Len(conn_calls) < MaxCalls
    /\ \E ok \in BOOLEAN :
          /\ conn_calls' = Append(conn_calls, Call("begin", IF ok THEN NextHandle ELSE 0, ok))
          /\ txn' = IF ok THEN [trans_handle |-> NextHandle, finished |-> FALSE]
                          ELSE NoTransaction
    /\ UNCHANGED <<h_dropped, nonTxnVars>>

\* execute / execute_batch / prepare, lines 155-161 and 179-181: they pass the
\* handle to the Connection and leave the Transaction as it is.
TxnExecute ==
    /\ txn # NoTransaction
    /\ Len(conn_calls) < MaxCalls
    /\ \E ok \in BOOLEAN :
          conn_calls' = Append(conn_calls, Call("execute", txn.trans_handle, ok))
    /\ UNCHANGED <<txn, h_dropped, nonTxnVars>>

\* commit() as it would be if it set the flag whatever _commit_final returned.
txn_commit_always_finished ==
    /\ txn # NoTransaction
    /\ Len(conn_calls) < MaxCalls
    /\ \E ok \in BOOLEAN :
          /\ conn_calls' = Append(conn_calls, Call("commit", txn.trans_handle, ok))
          /\ txn' = [txn EXCEPT !.finished = TRUE]
    /\ UNCHANGED <<h_dropped, nonTxnVars>>

\* commit(), lines 163-169: _commit_final(trans_handle); finished is set if Ok.
TxnCommit ==
    /\ txn # NoTransaction
    /\ Len(conn_calls) < MaxCalls
    /\ \E ok \in BOOLEAN :
          /\ conn_calls' = Append(conn_calls, Call("commit", txn.trans_handle, ok))
          /\ txn' = [txn EXCEPT !.finished = IF ok THEN TRUE ELSE @]
    /\ UNCHANGED <<h_dropped, nonTxnVars>>

\* rollback(), lines 171-177: _rollback_final(trans_handle); finished is set if Ok.
TxnRollback ==
    /\ txn # NoTransaction
    /\ Len(conn_calls) < MaxCalls
    /\ \E ok \in BOOLEAN :
          /\ conn_calls' = Append(conn_calls, Call("rollback", txn.trans_handle, ok))
          /\ txn' = [txn EXCEPT !.finished = IF ok THEN TRUE ELSE @]
    /\ UNCHANGED <<h_dropped, nonTxnVars>>

\* Drop as it would be if it called drop_transaction whatever the flag.
txn_drop_unconditional ==
    /\ txn # NoTransaction
    /\ conn_calls' = Append(conn_calls, Call("drop_transaction", txn.trans_handle, TRUE))
    /\ txn' = NoTransaction
    /\ h_dropped' = h_dropped \cup {txn.trans_handle}
    /\ UNCHANGED nonTxnVars

\* Drop for Transaction, lines 184-191: drop_transaction(trans_handle) unless finished.
TxnDrop ==
    /\ txn # NoTransaction
    /\ conn_calls' = IF ~txn.finished
                      THEN Append(conn_calls, Call("drop_transaction", txn.trans_handle, TRUE))
                      ELSE conn_calls
    /\ txn' = NoTransaction
    /\ h_dropped' = h_dropped \cup {txn.trans_handle}
    /\ UNCHANGED nonTxnVars

TxnNext ==
    \/ TxnNew
    \/ TxnExecute
    \/ TxnCommit
    \/ TxnRollback
    \/ TxnDrop

TxnSpec == TxnInit /\ [][TxnNext]_vars

\* ========================================================= EventAlerter
\* src/src/alerter.rs.  Names and buffers are byte strings (sequences of 0..255).
MAX_EVENTS == 15
EPB_VERSION1 == 1

\* The event names used: "a", "bc" and " a" (which trim() turns into "a").
NameA == <<97>>
NameBC == <<98, 99>>
NameSpA == <<32, 97>>

\* A list of n names, "a" and "bc" in turn.
NameList(n) == [i \in 1..n |-> IF i % 2 = 1 THEN NameA ELSE NameBC]

\* The lists given to register(): the short ones, one with a name twice, one
\* with a name to trim, and those around the limit.
NamesGiven ==
    {NameList(n) : n \in 0..2}
       \cup {NameList(n) : n \in (MAX_EVENTS - 1)..MaxNames}
       \cup {<<NameA, NameA>>, <<NameSpA>>}

\* The counts a result block carries for an entry.
Counts == {0, 1, 256}

\* str::trim on bytes: White_Space at either end goes.
IsSpace(b) == b \in {9, 10, 11, 12, 13, 32}
RECURSIVE TrimStart(_)
TrimStart(n) == IF n # <<>> /\ IsSpace(Head(n)) THEN TrimStart(Tail(n)) ELSE n
RECURSIVE TrimEnd(_)
TrimEnd(n) ==
    IF n # <<>> /\ IsSpace(n[Len(n)]) THEN TrimEnd(SubSeq(n, 1, Len(n) - 1)) ELSE n
trim(n) == TrimEnd(TrimStart(n))

\* u32::to_le_bytes and u32::from_le_bytes (buf is indexed from 0, as in the code).
to_le_bytes(c) ==
    <<c % 256, (c \div 256) % 256, (c \div 65536) % 256, (c \div 16777216) % 256>>
from_le_bytes(buf, pos) ==
    buf[pos + 1] + 256 * buf[pos + 2] + 65536 * buf[pos + 3] + 16777216 * buf[pos + 4]

\* build_event_buffer, lines 179-192: the version byte, then per event the
\* length of the trimmed name `as u8`, the trimmed name and four zero bytes.
RECURSIVE BuildEntries(_)
BuildEntries(evs) ==
    IF evs = <<>> THEN <<>>
    ELSE LET name == trim(Head(evs))
         IN <<Len(name) % 256>> \o name \o <<0, 0, 0, 0>> \o BuildEntries(Tail(evs))
build_event_buffer(evs) == <<EPB_VERSION1>> \o BuildEntries(evs)

\* parse_event_counts, lines 202-235: the loop from event i at offset pos; each
\* element of `fired` is (name, count), with the entry's index kept alongside.
RECURSIVE ParseFrom(_, _, _, _, _)
ParseFrom(evs, eb, rb, i, pos) ==
    IF i > Len(evs) \/ pos >= Len(eb) THEN <<>>
    ELSE LET name_len == eb[pos + 1]
             p == pos + 1 + name_len
         IN IF p + 4 > Len(eb) THEN <<>>
            ELSE LET old_count == from_le_bytes(eb, p)
                     new_count == from_le_bytes(rb, p)
                 IN (IF new_count > old_count
                     THEN <<[name |-> evs[i], count |-> new_count - old_count, idx |-> i]>>
                     ELSE <<>>)
                    \o ParseFrom(evs, eb, rb, i + 1, p + 4)

\* parse_event_counts, lines 195-238.
parse_event_counts(evs, eb, rb) ==
    IF Len(eb) # Len(rb) \/ eb = <<>> THEN <<>>
    ELSE ParseFrom(evs, eb, rb, 1, 1)

\* The server's side of the EPB format: the block for these names carrying
\* these counts, and the counts a block carries.
RECURSIVE BlockEntries(_, _)
BlockEntries(evs, cs) ==
    IF evs = <<>> THEN <<>>
    ELSE <<Len(trim(Head(evs)))>> \o trim(Head(evs)) \o to_le_bytes(Head(cs))
            \o BlockEntries(Tail(evs), Tail(cs))
EventBlock(evs, cs) == <<1>> \o BlockEntries(evs, cs)

RECURSIVE CountsFrom(_, _)
CountsFrom(buf, pos) ==
    IF pos >= Len(buf) THEN <<>>
    ELSE LET p == pos + 1 + buf[pos + 1]
         IN <<from_le_bytes(buf, p)>> \o CountsFrom(buf, p + 4)
EntryCounts(buf) == CountsFrom(buf, 1)

\* The count vectors a result block may carry for n entries: for one or two
\* entries every combination, for more the same count in every entry.
CountVectors(n) ==
    IF n <= 2 THEN [1..n -> Counts]
    ELSE {[i \in 1..n |-> c] : c \in Counts}

\* What wait_for_event can return for the names the worker queued.
ResultBlocks == {EventBlock(w_events, cs) : cs \in CountVectors(Len(w_events))}

\* The state the alerter model starts from: EventAlerter::new.
AlerterInit == PoolUnused /\ TxnIdle /\ AlerterIdle /\ ChannelIdle

\* Names for following build_event_buffer alone: the three above, the empty
\* name, names of blanks only, one with blanks at both ends, and names of
\* ByteRange - 1 and ByteRange bytes (the length is written `as u8`).
ByteRange == 256
NameOf(n, b) == [i \in 1..n |-> b]
EpbNames ==
    {NameA, NameBC, NameSpA, <<>>, <<32>>, <<9, 32>>, <<32, 98, 32>>, <<97, 32, 98>>,
     NameOf(3, 99), NameOf(ByteRange - 1, 97), NameOf(ByteRange, 97)}
EpbNamesGiven ==
    {<<>>} \cup {<<n>> : n \in EpbNames} \cup {<<n, m>> : n \in EpbNames, m \in EpbNames}

\* register() as it would be without the MAX_EVENTS check.
register_unchecked(names) ==
    /\ a_pc = "ready"
    /\ events' = names
    /\ event_buffer' = build_event_buffer(names)
    /\ result_buffer' = build_event_buffer(names)
    /\ last_result' = "ok"
    /\ UNCHANGED <<running, handle, a_pc, workerVars, nonAlerterVars>>

\* register(), lines 86-100.
AlerterRegister(names) ==
    /\ a_pc = "ready"
    /\ IF Len(names) > MAX_EVENTS
       THEN /\ last_result' = "err"
            /\ UNCHANGED <<events, event_buffer, result_buffer>>
       ELSE /\ events' = names
            /\ event_buffer' = build_event_buffer(names)
            /\ result_buffer' = event_buffer'
            /\ last_result' = "ok"
    /\ UNCHANGED <<running, handle, a_pc, workerVars, nonAlerterVars>>

\* start(), lines 109-140.  The model holds one worker: a start() that spawns
\* finds the previous one ended.
AlerterStart ==
    /\ a_pc = "ready"
    /\ w_pc \in {"idle", "exited"} \/ events = <<>> \/ running
    /\ IF events = <<>> \/ running
       THEN /\ last_result' = "err"
            /\ UNCHANGED <<running, handle, workerVars>>
       ELSE /\ last_result' = "ok"
            /\ running' = TRUE
            /\ handle' = TRUE
            /\ w_pc' = "connect"
            /\ w_events' = events
            /\ w_buffer' = event_buffer
            /\ w_result' = <<>>
            /\ w_fired' = <<>>
            /\ queued' = <<>>
            /\ cb_log' = <<>>
            /\ h_sum' = [i \in 1..Len(events) |-> 0]
            /\ h_blocks' = 0
            /\ event_id' = 0
            /\ cancelled' = <<>>
    /\ UNCHANGED <<events, event_buffer, result_buffer, a_pc, nonAlerterVars>>

\* stop() as it would be if it took the handle without joining the thread.
stop_without_join ==
    /\ a_pc = "ready"
    /\ running \/ handle
    /\ running' = FALSE
    /\ handle' = FALSE
    /\ UNCHANGED <<a_pc, events, event_buffer, result_buffer, last_result, workerVars,
                   nonAlerterVars>>

\* stop(), lines 144-146: the flag is cleared and the handle taken; the caller
\* then waits in join() if there was a handle.
AlerterStop ==
    /\ a_pc = "ready"
    /\ running \/ handle
    /\ running' = FALSE
    /\ handle' = FALSE
    /\ a_pc' = IF handle THEN "joining" ELSE "ready"
    /\ UNCHANGED <<events, event_buffer, result_buffer, last_result, workerVars, nonAlerterVars>>

\* Drop for EventAlerter, lines 165-169: the same stop(), then the alerter is gone.
AlerterDrop ==
    /\ a_pc = "ready"
    /\ running' = FALSE
    /\ handle' = FALSE
    /\ a_pc' = IF handle THEN "drop_joining" ELSE "dropped"
    /\ UNCHANGED <<events, event_buffer, result_buffer, last_result, workerVars, nonAlerterVars>>

\* stop(), line 148: handle.join() returns once the thread has ended.
AlerterJoin ==
    /\ a_pc \in {"joining", "drop_joining"}
    /\ w_pc = "exited"
    /\ a_pc' = IF a_pc = "joining" THEN "ready" ELSE "dropped"
    /\ UNCHANGED <<events, event_buffer, result_buffer, running, last_result, handle,
                   workerVars, nonAlerterVars>>

\* event_loop, line 249: Connection::connect(conn_string)?
WorkerConnect ==
    /\ w_pc = "connect"
    /\ \E ok \in BOOLEAN : w_pc' = IF ok THEN "queue" ELSE "ended"
    /\ UNCHANGED <<w_events, w_buffer, w_result, w_fired, queued, cb_log, h_sum, h_blocks,
                   event_id, cancelled, alerterVars, nonAlerterVars>>

\* event_loop, line 254: conn.queue_events(&event_buffer)?
WorkerQueue ==
    /\ w_pc = "queue"
    /\ \/ w_pc' = "loop" /\ queued' = w_buffer /\ event_id' = event_id + 1
       \/ w_pc' = "ended" /\ UNCHANGED <<queued, event_id>>
    /\ UNCHANGED <<w_events, w_buffer, w_result, w_fired, cb_log, h_sum, h_blocks,
                   cancelled, alerterVars, nonAlerterVars>>

\* The loop test as it would be if it did not look at the flag.
worker_loop_ignores_flag ==
    /\ w_pc = "loop"
    /\ w_pc' = "wait"
    /\ UNCHANGED <<w_events, w_buffer, w_result, w_fired, queued, cb_log, h_sum, h_blocks,
                   event_id, cancelled, alerterVars, nonAlerterVars>>

\* event_loop, line 256: while running.load()
WorkerLoop ==
    /\ w_pc = "loop"
    /\ w_pc' = IF running THEN "wait" ELSE "cancel"
    /\ UNCHANGED <<w_events, w_buffer, w_result, w_fired, queued, cb_log, h_sum, h_blocks,
                   event_id, cancelled, alerterVars, nonAlerterVars>>

\* event_loop, lines 258-261 and 274-282: wait_for_event(event_id, 1000)
\* returns a result block, which is parsed against the stored EPB; or nothing
\* within the second (back to the loop test); or an error (returned if the
\* flag is still set, else break).
WorkerWait ==
    /\ w_pc = "wait"
    /\ \/ /\ h_blocks < MaxBlocks
          /\ \E rb \in ResultBlocks :
                /\ w_result' = rb
                /\ w_fired' = parse_event_counts(w_events, w_buffer, rb)
          /\ cb_log' = <<>>
          /\ h_blocks' = h_blocks + 1
          /\ w_pc' = "callbacks"
       \/ /\ w_pc' = "loop"
          /\ UNCHANGED <<w_result, w_fired, cb_log, h_blocks>>
       \/ /\ w_pc' = IF running THEN "ended" ELSE "cancel"
          /\ UNCHANGED <<w_result, w_fired, cb_log, h_blocks>>
    /\ UNCHANGED <<w_events, w_buffer, queued, h_sum, event_id, cancelled,
                   alerterVars, nonAlerterVars>>

\* event_loop, lines 264-266: one iteration of `for (name, count) in fired`.
WorkerCallback ==
    /\ w_pc = "callbacks"
    /\ w_fired # <<>>
    /\ cb_log' = Append(cb_log, Head(w_fired))
    /\ h_sum' = [h_sum EXCEPT ![Head(w_fired).idx] = @ + Head(w_fired).count]
    /\ w_fired' = Tail(w_fired)
    /\ UNCHANGED <<w_pc, w_events, w_buffer, w_result, queued, h_blocks,
                   event_id, cancelled, alerterVars, nonAlerterVars>>

\* event_loop, line 269: event_buffer = result_buffer, once the callbacks are done.
WorkerUpdate ==
    /\ w_pc = "callbacks"
    /\ w_fired = <<>>
    /\ w_buffer' = w_result
    /\ w_pc' = "requeue"
    /\ UNCHANGED <<w_events, w_result, w_fired, queued, cb_log, h_sum, h_blocks,
                   event_id, cancelled, alerterVars, nonAlerterVars>>

\* The re-queue as it would be if it queued the EPB first given to the server.
worker_requeue_initial ==
    /\ w_pc = "requeue"
    /\ \/ w_pc' = "loop" /\ queued' = build_event_buffer(w_events) /\ event_id' = event_id + 1
       \/ w_pc' = "ended" /\ UNCHANGED <<queued, event_id>>
    /\ UNCHANGED <<w_events, w_buffer, w_result, w_fired, cb_log, h_sum, h_blocks,
                   cancelled, alerterVars, nonAlerterVars>>

\* event_loop, line 272: event_id = conn.queue_events(&event_buffer)?
WorkerRequeue ==
    /\ w_pc = "requeue"
    /\ \/ w_pc' = "loop" /\ queued' = w_buffer /\ event_id' = event_id + 1
       \/ w_pc' = "ended" /\ UNCHANGED <<queued, event_id>>
    /\ UNCHANGED <<w_events, w_buffer, w_result, w_fired, cb_log, h_sum, h_blocks,
                   cancelled, alerterVars, nonAlerterVars>>

\* The way out of the loop as it would be if it cancelled the id of the first queue.
worker_cancel_first_id ==
    /\ w_pc = "cancel"
    /\ w_pc' = "ended"
    /\ cancelled' = Append(cancelled, 1)
    /\ UNCHANGED <<w_events, w_buffer, w_result, w_fired, queued, cb_log, h_sum, h_blocks,
                   event_id, alerterVars, nonAlerterVars>>

\* event_loop, line 287: cancel_events(event_id) on the way out of the loop.
WorkerCancel ==
    /\ w_pc = "cancel"
    /\ w_pc' = "ended"
    /\ cancelled' = Append(cancelled, event_id)
    /\ UNCHANGED <<w_events, w_buffer, w_result, w_fired, queued, cb_log, h_sum, h_blocks,
                   event_id, alerterVars, nonAlerterVars>>

\* The thread's end as it would be without the final store.
worker_end_keeps_running ==
    /\ w_pc = "ended"
    /\ w_pc' = "exited"
    /\ UNCHANGED <<alerterVars, w_events, w_buffer, w_result, w_fired, queued, cb_log,
                   h_sum, h_blocks, event_id, cancelled, nonAlerterVars>>

\* start(), line 135: the thread's last act, running.store(false).
WorkerEnd ==
    /\ w_pc = "ended"
    /\ w_pc' = "exited"
    /\ running' = FALSE
    /\ UNCHANGED <<events, event_buffer, result_buffer, last_result, handle, a_pc,
                   w_events, w_buffer, w_result, w_fired, queued, cb_log, h_sum, h_blocks,
                   event_id, cancelled, nonAlerterVars>>

\* The steps of the worker thread.
WorkerStep ==
    \/ WorkerConnect
    \/ WorkerQueue
    \/ WorkerLoop
    \/ WorkerWait
    \/ WorkerCallback
    \/ WorkerUpdate
    \/ WorkerRequeue
    \/ WorkerCancel
    \/ WorkerEnd

AlerterNext ==
    \/ \E names \in NamesGiven : AlerterRegister(names)
    \/ AlerterStart
    \/ AlerterStop
    \/ AlerterDrop
    \/ AlerterJoin
    \/ WorkerStep

AlerterSpec == AlerterInit /\ [][AlerterNext]_vars

\* The alerter with one event name registered at most, for the questions that
\* are about the threads and not about the names.
StopNext ==
    \/ \E names \in {<<>>, <<NameA>>} : AlerterRegister(names)
    \/ AlerterStart
    \/ AlerterStop
    \/ AlerterDrop
    \/ AlerterJoin
    \/ WorkerStep

StopSpec == AlerterInit /\ [][StopNext]_vars

\* The worker thread runs: every call it makes returns (wait_for_event within
\* its second), and a join() returns once the thread has ended.
FairStopSpec == StopSpec /\ WF_vars(WorkerStep) /\ WF_vars(AlerterJoin)

\* build_event_buffer alone, through register(), over the wider set of names.
EpbNext == \E names \in EpbNamesGiven : AlerterRegister(names)

EpbSpec == AlerterInit /\ [][EpbNext]_vars

\* ================================================================ WireChannel
\* A WireChannel and the peer it talks to, configured identically: the write
\* half (compressor.encoder, write_trans, writer) is the sending channel's, the
\* read half (read_trans, compressor.decoder, read_buf) is the receiving
\* channel's, and `socket` is the TCP stream between them.  set_crypt_key and
\* enable_compression act on both at a point where nothing is under way
\* between the two, as the handshake does.

\* Sizes: BUFFER_SIZE is the BufWriter's capacity (32768 in line 50) and
\* InputBufLen the length of input_buf (8192 in line 98), both scaled down.
BUFFER_SIZE == 4
InputBufLen == 2
MaxWrite == 2
MaxBytes == 3
MaxRead == 2

\* The byte values written.
Data == {7, 200}
CryptPlugins == {"ChaCha", "Arc4"}
Plugins == {"ChaCha64", "ChaCha", "Arc4", "Unknown"}

Min(a, b) == IF a < b THEN a ELSE b
IsPrefix(a, b) == Len(a) <= Len(b) /\ a = SubSeq(b, 1, Len(a))
Drop(q, k) == SubSeq(q, k + 1, Len(q))
SeqsUpTo(S, n) == UNION {[1..k -> S] : k \in 0..n}

\* Bitwise exclusive or of two bytes.
RECURSIVE Xor(_, _)
Xor(a, b) ==
    IF a = 0 THEN b
    ELSE IF b = 0 THEN a
    ELSE ((a + b) % 2) + 2 * Xor(a \div 2, b \div 2)

\* The key stream byte a translator produces at position p: a stand-in for the
\* ARC4 and ChaCha20 generators, different for the two ciphers and from one
\* position to the next.
KeyStream(plugin, p) ==
    IF plugin = "Arc4" THEN (91 + 37 * p) % 256 ELSE (23 + 101 * p) % 256

\* CryptTranslator::translate: every byte is combined with the next byte of
\* the key stream; the translator moves on by the number of bytes translated.
translate(t, data) ==
    [out |-> [i \in 1..Len(data) |-> Xor(data[i], KeyStream(t.plugin, t.pos + i - 1))],
     trans |-> [t EXCEPT !.pos = @ + Len(data)]]

\* The compressed stream: a header once, then per byte either a literal (a
\* tag and the byte) or a reference to the byte before it, and a marker
\* where the encoder was flushed.  It stands for the zlib stream: the output's
\* length differs from the input's, and what a byte means depends on what
\* came before it, across calls.
Z_HEADER == 120
Z_LITERAL == 0
Z_REPEAT == 1
Z_SYNC == 2

RECURSIVE Deflate(_, _)
Deflate(last, data) ==
    IF data = <<>> THEN <<>>
    ELSE IF Head(data) = last
         THEN <<Z_REPEAT>> \o Deflate(last, Tail(data))
         ELSE <<Z_LITERAL, Head(data)>> \o Deflate(Head(data), Tail(data))

\* compress() as it would be with an encoder made anew for every packet.
compress_per_packet(enc, data) ==
    [out |-> <<Z_HEADER>> \o Deflate(-1, data) \o <<Z_SYNC>>,
     enc |-> [hdr |-> TRUE, last |-> IF data = <<>> THEN enc.last ELSE data[Len(data)]]]

\* WireCompressor::compress, lines 59-73: the output of this call only
\* (the buffer is cleared first), ending with the sync flush; a flush with
\* nothing written since the last one adds nothing.
compress(enc, data) ==
    [out |-> IF data = <<>> /\ enc.hdr THEN <<>>
             ELSE (IF enc.hdr THEN <<>> ELSE <<Z_HEADER>>) \o Deflate(enc.last, data) \o <<Z_SYNC>>,
     enc |-> [hdr |-> TRUE, last |-> IF data = <<>> THEN enc.last ELSE data[Len(data)]]]

\* The decoder fed one byte of the compressed stream.
InflateByte(r, b) ==
    IF ~r.ok THEN r
    ELSE IF ~r.dec.hdr
    THEN IF b = Z_HEADER THEN [r EXCEPT !.dec.hdr = TRUE] ELSE [r EXCEPT !.ok = FALSE]
    ELSE IF r.dec.lit
    THEN [r EXCEPT !.dec.lit = FALSE, !.dec.last = b, !.out = Append(@, b)]
    ELSE IF b = Z_LITERAL THEN [r EXCEPT !.dec.lit = TRUE]
    ELSE IF b = Z_REPEAT
    THEN IF r.dec.last = -1 THEN [r EXCEPT !.ok = FALSE]
         ELSE [r EXCEPT !.out = Append(@, r.dec.last)]
    ELSE IF b = Z_SYNC THEN r
    ELSE [r EXCEPT !.ok = FALSE]

RECURSIVE Inflate(_, _)
Inflate(r, data) ==
    IF data = <<>> THEN r ELSE Inflate(InflateByte(r, Head(data)), Tail(data))

\* decompress() as it would be with a decoder that starts afresh on every call.
decompress_per_call(dec, data) ==
    Inflate([dec |-> [NewDecoder EXCEPT !.hdr = dec.hdr], out |-> <<>>, ok |-> TRUE], data)

\* WireCompressor::decompress, lines 79-93: the bytes this call could decode
\* (the buffer is cleared first); what is incomplete stays in the decoder.
decompress(dec, data) ==
    Inflate([dec |-> dec, out |-> <<>>, ok |-> TRUE], data)

\* BufWriter::write_all as called in lines 147-149: data that fits is kept;
\* data larger than the room left sends the buffer to the socket first; data
\* of the buffer's capacity or more goes to the socket directly.
write_all(buffered, data) ==
    IF Len(data) < BUFFER_SIZE - Len(buffered)
    THEN [writer |-> buffered \o data, sent |-> <<>>]
    ELSE LET flushed == Len(data) > BUFFER_SIZE - Len(buffered)
             kept == IF flushed THEN <<>> ELSE buffered
             sent == IF flushed THEN buffered ELSE <<>>
         IN IF Len(data) >= BUFFER_SIZE
            THEN [writer |-> kept, sent |-> sent \o data]
            ELSE [writer |-> kept \o data, sent |-> sent]

\* Nothing is under way between the two sides.
Quiescent == writer = <<>> /\ socket = <<>> /\ r_pc = "idle" /\ ~sock_closed

\* enable_compression(), lines 72-75, on both sides.
ChEnableCompression ==
    /\ Quiescent
    /\ ~compressed
    /\ compressor' = NewCompressor
    /\ compressed' = TRUE
    /\ UNCHANGED <<read_buf, read_trans, write_trans, writer, socket, sock_closed,
                   r_pc, r_n, r_out, r_result, h_written, h_out, h_wire, h_decoded, h_read,
                   nonChanVars>>

\* set_crypt_key() as it would be if it installed the write translator only.
set_crypt_key_write_only(plugin) ==
    /\ Quiescent
    /\ ~write_trans.some
    /\ h_plugin' = plugin
    /\ IF plugin \in {"ChaCha64", "ChaCha", "Arc4"}
       THEN /\ write_trans' = Translator(IF plugin = "Arc4" THEN "Arc4" ELSE "ChaCha")
            /\ UNCHANGED read_trans
       ELSE UNCHANGED <<read_trans, write_trans>>
    /\ UNCHANGED <<read_buf, compressor, compressed, writer, socket, sock_closed,
                   r_pc, r_n, r_out, r_result, h_written, h_out, h_wire, h_decoded, h_read,
                   nonWireVars, peerVars>>

\* set_crypt_key(), lines 82-93, on both sides: two translators of the same
\* cipher and key (ChaCha for "ChaCha64" and "ChaCha", Arc4 for "Arc4"), or
\* nothing for a plugin it does not know.
ChSetCryptKey(plugin) ==
    /\ Quiescent
    /\ ~write_trans.some
    /\ h_plugin' = plugin
    /\ IF plugin \in {"ChaCha64", "ChaCha", "Arc4"}
       THEN /\ read_trans' = Translator(IF plugin = "Arc4" THEN "Arc4" ELSE "ChaCha")
            /\ write_trans' = Translator(IF plugin = "Arc4" THEN "Arc4" ELSE "ChaCha")
       ELSE UNCHANGED <<read_trans, write_trans>>
    /\ UNCHANGED <<read_buf, compressor, compressed, writer, socket, sock_closed,
                   r_pc, r_n, r_out, r_result, h_written, h_out, h_wire, h_decoded, h_read,
                   nonWireVars, peerVars>>

\* write() as it would be with the translator applied before the compressor.
write_encrypt_first(buf) ==
    /\ ~sock_closed
    /\ Len(h_written) + Len(buf) <= MaxBytes
    /\ LET e == IF write_trans.some THEN translate(write_trans, buf)
                ELSE [out |-> buf, trans |-> write_trans]
           c == IF compressed /\ compressor.some THEN compress(compressor.encoder, e.out)
                ELSE [out |-> e.out, enc |-> compressor.encoder]
           w == write_all(writer, c.out)
       IN /\ compressor' = [compressor EXCEPT !.encoder = c.enc]
          /\ write_trans' = e.trans
          /\ writer' = w.writer
          /\ socket' = socket \o w.sent
          /\ h_wire' = h_wire \o w.sent
          /\ h_out' = h_out \o c.out
          /\ h_written' = h_written \o buf
    /\ UNCHANGED <<read_buf, read_trans, compressed, sock_closed, r_pc, r_n, r_out, r_result,
                   h_decoded, h_read, nonChanVars>>

\* write() as it would be if one translator served both directions.
write_shared_translator(buf) ==
    /\ ~sock_closed
    /\ Len(h_written) + Len(buf) <= MaxBytes
    /\ LET c == IF compressed /\ compressor.some THEN compress(compressor.encoder, buf)
                ELSE [out |-> buf, enc |-> compressor.encoder]
           e == IF write_trans.some THEN translate(write_trans, c.out)
                ELSE [out |-> c.out, trans |-> write_trans]
           w == write_all(writer, e.out)
       IN /\ compressor' = [compressor EXCEPT !.encoder = c.enc]
          /\ write_trans' = e.trans
          /\ read_trans' = e.trans
          /\ writer' = w.writer
          /\ socket' = socket \o w.sent
          /\ h_wire' = h_wire \o w.sent
          /\ h_out' = h_out \o e.out
          /\ h_written' = h_written \o buf
    /\ UNCHANGED <<read_buf, compressed, sock_closed, r_pc, r_n, r_out, r_result,
                   h_decoded, h_read, nonChanVars>>

\* write() as it would be if every call sent its bytes to the socket.
write_through(buf) ==
    /\ ~sock_closed
    /\ Len(h_written) + Len(buf) <= MaxBytes
    /\ LET c == IF compressed /\ compressor.some THEN compress(compressor.encoder, buf)
                ELSE [out |-> buf, enc |-> compressor.encoder]
           e == IF write_trans.some THEN translate(write_trans, c.out)
                ELSE [out |-> c.out, trans |-> write_trans]
       IN /\ compressor' = [compressor EXCEPT !.encoder = c.enc]
          /\ write_trans' = e.trans
          /\ writer' = <<>>
          /\ socket' = socket \o writer \o e.out
          /\ h_wire' = h_wire \o writer \o e.out
          /\ h_out' = h_out \o e.out
          /\ h_written' = h_written \o buf
    /\ UNCHANGED <<read_buf, read_trans, compressed, sock_closed, r_pc, r_n, r_out, r_result,
                   h_decoded, h_read, nonChanVars>>

\* write(buf), lines 133-152: compress if enabled, then translate if a key is
\* set, then write_all into the BufWriter.
ChWrite(buf) ==
    /\ ~sock_closed
    /\ Len(h_written) + Len(buf) <= MaxBytes
    /\ LET c == IF compressed /\ compressor.some THEN compress(compressor.encoder, buf)
                ELSE [out |-> buf, enc |-> compressor.encoder]
           e == IF write_trans.some THEN translate(write_trans, c.out)
                ELSE [out |-> c.out, trans |-> write_trans]
           w == write_all(writer, e.out)
       IN /\ compressor' = [compressor EXCEPT !.encoder = c.enc]
          /\ write_trans' = e.trans
          /\ writer' = w.writer
          /\ socket' = socket \o w.sent
          /\ h_wire' = h_wire \o w.sent
          /\ h_out' = h_out \o e.out
          /\ h_written' = h_written \o buf
    /\ UNCHANGED <<read_buf, read_trans, compressed, sock_closed, r_pc, r_n, r_out, r_result,
                   h_decoded, h_read, nonChanVars>>

\* flush(), lines 154-157: the BufWriter's bytes go to the socket.
ChFlush ==
    /\ ~sock_closed
    /\ writer # <<>>
    /\ socket' = socket \o writer
    /\ h_wire' = h_wire \o writer
    /\ writer' = <<>>
    /\ UNCHANGED <<read_buf, read_trans, write_trans, compressor, compressed, sock_closed,
                   r_pc, r_n, r_out, r_result, h_written, h_out, h_decoded, h_read,
                   nonChanVars>>

\* The sending side closes the socket; what it had sent can still be read.
ChClose ==
    /\ ~sock_closed
    /\ sock_closed' = TRUE
    /\ UNCHANGED <<read_buf, read_trans, write_trans, compressor, compressed, writer, socket,
                   r_pc, r_n, r_out, r_result, h_written, h_out, h_wire, h_decoded, h_read,
                   nonChanVars>>

\* read(n) is called, line 95.
ReadCall(n) ==
    /\ r_pc = "idle"
    /\ r_pc' = "fill"
    /\ r_n' = n
    /\ r_out' = <<>>
    /\ r_result' = "none"
    /\ UNCHANGED <<read_buf, read_trans, write_trans, compressor, compressed, writer, socket,
                   sock_closed, h_written, h_out, h_wire, h_decoded, h_read, nonChanVars>>

\* read(), lines 97-126, one turn of the loop with the socket giving ln > 0
\* bytes, at most the length of input_buf: translate, then decompress, then
\* enqueue.  A decompress error returns from read().
ReadChunk ==
    /\ r_pc = "fill"
    /\ Len(read_buf) < r_n
    /\ socket # <<>>
    /\ \E ln \in 1..Min(InputBufLen, Len(socket)) :
         LET d == IF read_trans.some THEN translate(read_trans, SubSeq(socket, 1, ln))
                  ELSE [out |-> SubSeq(socket, 1, ln), trans |-> read_trans]
             x == IF compressed /\ compressor.some THEN decompress(compressor.decoder, d.out)
                  ELSE [dec |-> compressor.decoder, out |-> d.out, ok |-> TRUE]
         IN /\ socket' = Drop(socket, ln)
            /\ read_trans' = d.trans
            /\ compressor' = [compressor EXCEPT !.decoder = x.dec]
            /\ IF x.ok
               THEN /\ read_buf' = read_buf \o x.out
                    /\ h_decoded' = h_decoded \o x.out
                    /\ UNCHANGED <<r_pc, r_result>>
               ELSE /\ r_pc' = "idle"
                    /\ r_result' = "inflate"
                    /\ UNCHANGED <<read_buf, h_decoded>>
    /\ UNCHANGED <<write_trans, compressed, writer, sock_closed, r_n, r_out,
                   h_written, h_out, h_wire, h_read, nonChanVars>>

\* read() as it would be if it handed out what it had when the socket closed.
read_eof_partial ==
    /\ r_pc = "fill"
    /\ Len(read_buf) < r_n
    /\ socket = <<>>
    /\ sock_closed
    /\ r_pc' = "idle"
    /\ r_result' = "eof"
    /\ r_out' = read_buf
    /\ read_buf' = <<>>
    /\ h_read' = h_read \o read_buf
    /\ UNCHANGED <<read_trans, write_trans, compressor, compressed, writer, socket,
                   sock_closed, r_n, h_written, h_out, h_wire, h_decoded, nonChanVars>>

\* read(), lines 99-105: the socket gives 0 bytes, it is closed and all it
\* carried has been taken.
ReadEof ==
    /\ r_pc = "fill"
    /\ Len(read_buf) < r_n
    /\ socket = <<>>
    /\ sock_closed
    /\ r_pc' = "idle"
    /\ r_result' = "eof"
    /\ UNCHANGED <<read_buf, read_trans, write_trans, compressor, compressed, writer, socket,
                   sock_closed, r_n, r_out, h_written, h_out, h_wire, h_decoded, h_read,
                   nonChanVars>>

\* read(), line 99: reader.read fails otherwise (the read timeout passes with
\* the socket open and nothing to take).
ReadIoError ==
    /\ r_pc = "fill"
    /\ Len(read_buf) < r_n
    /\ socket = <<>>
    /\ ~sock_closed
    /\ r_pc' = "idle"
    /\ r_result' = "io"
    /\ UNCHANGED <<read_buf, read_trans, write_trans, compressor, compressed, writer, socket,
                   sock_closed, r_n, r_out, h_written, h_out, h_wire, h_decoded, h_read,
                   nonChanVars>>

\* read() as it would be if it copied the first n bytes without removing them.
read_return_no_drain ==
    /\ r_pc = "fill"
    /\ Len(read_buf) >= r_n
    /\ r_out' = SubSeq(read_buf, 1, r_n)
    /\ h_read' = h_read \o r_out'
    /\ r_pc' = "idle"
    /\ r_result' = "ok"
    /\ UNCHANGED <<read_buf, read_trans, write_trans, compressor, compressed, writer, socket,
                   sock_closed, r_n, h_written, h_out, h_wire, h_decoded, nonChanVars>>

\* read(), lines 97 and 129-130: read_buf holds n bytes; the first n are
\* drained and returned.
ReadReturn ==
    /\ r_pc = "fill"
    /\ Len(read_buf) >= r_n
    /\ r_out' = SubSeq(read_buf, 1, r_n)
    /\ read_buf' = Drop(read_buf, r_n)
    /\ h_read' = h_read \o r_out'
    /\ r_pc' = "idle"
    /\ r_result' = "ok"
    /\ UNCHANGED <<read_trans, write_trans, compressor, compressed, writer, socket,
                   sock_closed, r_n, h_written, h_out, h_wire, h_decoded, nonChanVars>>

ChannelInit == PoolUnused /\ TxnIdle /\ AlerterIdle /\ ChannelIdle

ChannelNext ==
    \/ ChEnableCompression
    \/ \E plugin \in CryptPlugins : ChSetCryptKey(plugin)
    \/ \E buf \in SeqsUpTo(Data, MaxWrite) : ChWrite(buf)
    \/ ChFlush
    \/ ChClose
    \/ \E n \in 0..MaxRead : ReadCall(n)
    \/ ReadChunk
    \/ ReadEof
    \/ ReadIoError
    \/ ReadReturn

ChannelSpec == ChannelInit /\ [][ChannelNext]_vars

\* ---------------------------------------------------------------- the switch to compression
\* A receiving WireChannel and a peer that switches to compression at a point
\* of its own choosing.  The peer's write() and flush() are taken together:
\* its bytes are on the socket at once.  The receiving side follows the
\* handshake: it asks for no byte beyond the peer's uncompressed frames
\* before it has called enable_compression(), and it calls that once it has
\* been handed all of them.

\* The peer's write(buf) and flush(): compressed once the peer has switched.
PeerWrite(buf) ==
    /\ ~sock_closed
    /\ Len(h_written) + Len(buf) <= MaxBytes
    /\ LET c == IF peer_comp.on THEN compress(peer_comp.encoder, buf)
                ELSE [out |-> buf, enc |-> peer_comp.encoder]
       IN /\ peer_comp' = [peer_comp EXCEPT !.encoder = c.enc]
          /\ socket' = socket \o c.out
          /\ h_written' = h_written \o buf
    /\ UNCHANGED <<read_buf, read_trans, write_trans, compressor, compressed, writer,
                   sock_closed, r_pc, r_n, r_out, r_result, h_out, h_wire, h_decoded, h_read,
                   h_mark, keyVars, nonWireVars>>

\* The peer's enable_compression(), lines 72-75 run by the peer.
PeerEnableCompression ==
    /\ ~peer_comp.on
    /\ peer_comp' = [on |-> TRUE, encoder |-> NewEncoder]
    /\ h_mark' = Len(h_written)
    /\ UNCHANGED <<chanVars, keyVars, nonWireVars>>

\* enable_compression(), lines 72-75, called between two read() calls once
\* every uncompressed byte of the peer has been returned by read().
EnableCompression ==
    /\ r_pc = "idle"
    /\ ~compressed
    /\ peer_comp.on /\ Len(h_read) = h_mark
    /\ compressor' = NewCompressor
    /\ compressed' = TRUE
    /\ UNCHANGED <<read_buf, read_trans, write_trans, writer, socket, sock_closed,
                   r_pc, r_n, r_out, r_result, h_written, h_out, h_wire, h_decoded, h_read,
                   nonChanVars>>

\* read(n) as the handshake calls it: before the switch only for bytes of the
\* peer's frames written so far, none of them compressed.
BoundaryRead(n) ==
    /\ compressed \/ Len(h_read) + n <= (IF peer_comp.on THEN h_mark ELSE Len(h_written))
    /\ ReadCall(n)

BoundaryNext ==
    \/ \E buf \in SeqsUpTo(Data, MaxWrite) : PeerWrite(buf)
    \/ PeerEnableCompression
    \/ EnableCompression
    \/ \E n \in 0..MaxRead : BoundaryRead(n)
    \/ ReadChunk
    \/ ReadReturn

BoundarySpec == ChannelInit /\ [][BoundaryNext]_vars

\* ---------------------------------------------------------------- WireCompressor alone
\* One WireCompressor compressing packets (peer_comp.encoder) and a fresh one
\* decompressing each output as a whole (compressor.decoder).  The packets
\* hold any of the byte values of Data and of the stream's own markers.
PacketBytes == Data \cup {Z_HEADER, Z_LITERAL, Z_REPEAT, Z_SYNC}

\* compress(p) on the one, lines 59-73, then decompress of its output on the
\* other, lines 79-93.
CompressPacket(p) ==
    /\ Len(h_written) + Len(p) <= MaxBytes
    /\ r_result # "inflate"
    /\ LET c == compress(peer_comp.encoder, p)
           x == decompress(compressor.decoder, c.out)
       IN /\ peer_comp' = [peer_comp EXCEPT !.encoder = c.enc]
          /\ compressor' = [compressor EXCEPT !.decoder = x.dec]
          /\ h_written' = h_written \o p
          /\ h_out' = h_out \o c.out
          /\ r_n' = Len(p)
          /\ IF x.ok
             THEN h_decoded' = h_decoded \o x.out /\ r_out' = x.out /\ r_result' = "ok"
             ELSE UNCHANGED <<h_decoded, r_out>> /\ r_result' = "inflate"
    /\ UNCHANGED <<read_buf, read_trans, write_trans, compressed, writer, socket, sock_closed,
                   r_pc, h_wire, h_read, h_mark, keyVars, nonWireVars>>

CompressNext == \E p \in SeqsUpTo(PacketBytes, MaxWrite) : CompressPacket(p)

CompressSpec == ChannelInit /\ [][CompressNext]_vars

\* ---------------------------------------------------------------- set_crypt_key with any plugin name
\* The channel with every plugin name given to set_crypt_key, and one byte
\* value written.
KeyNext ==
    \/ \E plugin \in Plugins : ChSetCryptKey(plugin)
    \/ \E buf \in SeqsUpTo({7}, MaxWrite) : ChWrite(buf)
    \/ ChFlush
    \/ \E n \in 0..MaxRead : ReadCall(n)
    \/ ReadChunk
    \/ ReadIoError
    \/ ReadReturn

KeySpec == ChannelInit /\ [][KeyNext]_vars

\* ================================================================ claims
Holding(t) == pc[t] = "holding"
taken == {guard[t] : t \in {u \in Threads : pc[u] = "taken"}}
FromQueue(t) == h_handout[t] \in {"queue", "queue_after_stale"}
Idle(q) == {q[i].conn : i \in 1..Len(q)}

\* C1: pool cap -- in every reachable state available.len() + in_use <= max_size,
\* under any interleaving of get(), guard drop, take(), invalidate(), clear()
\* and close().
C1_PoolCap == Len(available) + in_use <= options.max_size

\* C2: exclusive ownership -- no connection is held by two guards, and none is
\* at once in the available queue (or there twice) and held by a guard or by a
\* caller that used take().
C2_ExclusiveOwnership ==
    /\ \A t1, t2 \in Threads :
          Holding(t1) /\ Holding(t2) /\ t1 # t2 => guard[t1] # guard[t2]
    /\ \A t \in Threads : Holding(t) => guard[t] \notin Idle(available) \cup taken
    /\ taken \cap Idle(available) = {}
    /\ \A i, j \in 1..Len(available) : i # j => available[i].conn # available[j].conn

\* C2 witness: both threads hold a guard, one of them on a connection that had
\* been returned to the queue before.
C2_Witness ==
    /\ Holding(1) /\ Holding(2)
    /\ FromQueue(1)
    /\ guard[1].id > options.min_size

\* C3: a connection held by a guard when invalidate() is called is discarded
\* when that guard is dropped: it is not pushed back to the available queue.
C3_InUseDiscardedOnReturn ==
    [][\A t \in Threads :
          (Holding(t) /\ pc'[t] = "dropped" /\ h_guardGen[t] < invalidate_version)
              => guard[t] \notin Idle(available')]_vars

\* An entry older than connection_lifetime or of an older generation.
Stale(e) ==
    \/ e.version < invalidate_version
    \/ options.connection_lifetime > 0 /\ now - e.created_at > options.connection_lifetime

\* C4: every connection get() takes from the queue is tagged with the pool's
\* current generation (so none that was idle at an invalidate() or clear() is
\* handed out), and the stale entries popped on the way are discarded, not
\* re-queued: the queue left behind is what followed the entry taken.
C4_IdleInvalidated ==
    [][\A t \in Threads :
          (pc[t] = "try_available" /\ pc'[t] # pc[t]) =>
             /\ \A e \in {available'[i] : i \in 1..Len(available')} :
                   \E i \in 1..Len(available) : available[i] = e
             /\ pc'[t] = "holding" =>
                   \E i \in 1..Len(available) :
                      /\ available[i].conn = guard'[t]
                      /\ available[i].version = invalidate_version
                      /\ available' = SubSeq(available, i + 1, Len(available))
                      /\ \A j \in 1..(i - 1) : Stale(available[j])
             /\ pc'[t] # "holding" =>
                   /\ available' = <<>>
                   /\ \A j \in 1..Len(available) : Stale(available[j])]_vars

\* C4 witness: after an invalidate(), a get() has popped and discarded a stale
\* entry and taken the current-generation entry behind it.
C4_Witness ==
    \E t \in Threads :
       /\ Holding(t)
       /\ h_handout[t] = "queue_after_stale"
       /\ invalidate_version > 0
       /\ h_guardGen[t] = invalidate_version

\* C5: when a guard that holds its connection is dropped, in_use goes down by
\* one (or the connection has been discarded); here in_use goes down by one in
\* every case, whether the connection is queued again or discarded.
C5_PoolReturn ==
    [][\A t \in Threads :
          (Holding(t) /\ pc'[t] = "dropped") =>
             /\ in_use > 0
             /\ in_use' = in_use - 1
             /\ \/ available' = Append(available,
                                       PooledConnection(guard[t], now, invalidate_version))
                \/ available' = available /\ guard[t] \notin Idle(available')]_vars

\* C5 witness: a guard on a connection opened by get() has been dropped and the
\* connection sits in the queue, with no connection counted in use.
C5_Witness ==
    \E t \in Threads :
       /\ pc[t] = "dropped"
       /\ in_use = 0
       /\ \E c \in Idle(available) : c.id > options.min_size

C7_LifetimeSinceCreation ==
    [][\A t \in Threads :
          (pc[t] = "try_available" /\ pc'[t] = "holding"
             /\ options.connection_lifetime > 0)
              => now - guard'[t].born <= options.connection_lifetime]_vars

\* C8: a get() that starts after close() fails with the pool-closed error,
\* opens no physical connection and leaves in_use and available unchanged.
C8_GetOnClosedPool ==
    /\ [][\A t \in Threads :
            (pc[t] \in Rest /\ closed /\ pc'[t] # pc[t]) =>
               /\ pc'[t] = "closed_err"
               /\ UNCHANGED <<available, in_use, opened>>]_vars
    /\ [](\A t \in Threads : h_startedClosed[t] => pc[t] = "closed_err")

\* C8 witness: a get() begun on a closed pool has returned the error while the
\* other thread's guard is still counted.
C8_Witness ==
    \E t \in Threads :
       /\ h_startedClosed[t] /\ pc[t] = "closed_err"
       /\ in_use > 0

\* C9: every get() blocked in the wait when close() is called is woken by it,
\* and eventually returns, with the pool-closed error.
C9_CloseWakesWaiters ==
    \A t \in Threads :
       /\ [](h_closedWaiting[t] => pc[t] \in {"check_closed", "closed_err"})
       /\ (h_closedWaiting[t] ~> pc[t] = "closed_err")

\* C9 witness: a get() that was blocked when close() ran has returned the error.
C9_Witness ==
    \E t \in Threads : h_closedWaiting[t] /\ pc[t] = "closed_err" /\ ~h_startedClosed[t]

C11_TakeDetaches ==
    /\ [](\A c \in h_taken :
            /\ c \notin Idle(available)
            /\ \A t \in Threads : Holding(t) => guard[t] # c)
    /\ [][\A t \in Threads :
            (Holding(t) /\ pc'[t] = "taken") =>
               /\ UNCHANGED <<available, in_use>>
               /\ \A w \in Threads \ {t} : pc'[w] = pc[w]]_vars

\* C11 witness: one caller keeps a connection it took out of its guard, and a
\* get() that came after the take() holds a connection popped from the queue.
C11_Witness ==
    \E t, u \in Threads :
       /\ pc[u] = "taken" /\ guard[u] \in h_taken
       /\ Holding(t) /\ FromQueue(t)
       /\ in_use = 2

\* C12: clear() increments the pool generation by one and empties the available
\* queue; it leaves in_use, the closed flag and every connection held by a
\* guard (and the guards' owners) unchanged.  No step changes the generation
\* in any other way than by one, with the same frame.
C12_ClearFrame ==
    [][/\ Clear =>
             /\ invalidate_version' = invalidate_version + 1
             /\ available' = <<>>
       /\ invalidate_version' # invalidate_version =>
             /\ invalidate_version' = invalidate_version + 1
             /\ available' \in {available, <<>>}
             /\ UNCHANGED <<in_use, closed, guard, pc, opened>>]_vars

\* C12 witness: a pool opened with two connections, one of them handed out
\* before the generation changed and still held; the other has left the queue
\* though the pool is open and no other get() has run: clear() removed it.
C12_Witness ==
    /\ options.min_size = 2 /\ opened = 2
    /\ invalidate_version = 1 /\ ~closed
    /\ Holding(1) /\ h_guardGen[1] = 0 /\ pc[2] = "idle"
    /\ in_use = 1
    /\ available = <<>>

\* C13: ConnectionPool::new eagerly opens exactly min_size connections -- when
\* it returns Ok, available holds min_size entries (distinct connections, all
\* of generation 0, in the order opened), in_use = 0, generation = 0 and
\* closed = false; it returns Err only from a connect that failed, before
\* min_size connections were opened, and then no pool is left.  A new() that
\* takes no time gives the state the pool model starts from.
C13_NewEager ==
    /\ [](new_pc = "ok" =>
            /\ Len(available) = options.min_size
            /\ opened = options.min_size
            /\ in_use = 0 /\ invalidate_version = 0 /\ ~closed
            /\ \A i \in 1..Len(available) :
                  /\ available[i].conn.id = i
                  /\ available[i].version = 0
                  /\ available[i].created_at <= now
            /\ now = 0 => available = Precreated(options.min_size))
    /\ [](new_pc = "err" => available = <<>> /\ opened < options.min_size)
    /\ [][/\ new_pc # "connecting" => new_pc' = new_pc
          /\ (new_pc = "connecting" /\ new_pc' = "err") => opened' = opened
          /\ (new_pc = "connecting" /\ new_pc' = "ok") => UNCHANGED <<available, opened>>]_vars

\* C13 witness: new() has returned a pool of three connections opened at
\* different times.
C13_Witness ==
    /\ new_pc = "ok"
    /\ options.min_size = 3
    /\ Len(available) = 3
    /\ available[1].created_at < available[3].created_at

\* C14: FIFO reuse -- the available queue is first-in first-out: a returned
\* connection is appended at the back (the queue stays ordered by the time of
\* return), and get() takes from the front: the connection it hands out is the
\* first valid entry, so no valid idle connection was returned before it.
C14_FifoReuse ==
    /\ [](\A i, j \in 1..Len(available) :
            i < j => available[i].created_at <= available[j].created_at)
    /\ [][/\ Len(available') > Len(available) =>
               \E t \in Threads :
                  /\ Holding(t) /\ pc'[t] = "dropped"
                  /\ available' = Append(available,
                         PooledConnection(guard[t], now, invalidate_version))
          /\ \A t \in Threads :
               (pc[t] = "try_available" /\ pc'[t] = "holding") =>
                  \E i \in 1..Len(available) :
                     /\ guard'[t] = available[i].conn
                     /\ is_valid(available[i], invalidate_version)
                     /\ \A j \in 1..Len(available) :
                           is_valid(available[j], invalidate_version) =>
                              /\ i <= j
                              /\ available[i].created_at <= available[j].created_at]_vars

\* C14 witness: the connection opened second was returned before the one
\* opened first, and the next get() has handed out the second while the first
\* is still idle.
C14_Witness ==
    \E t \in Threads :
       /\ Holding(t) /\ FromQueue(t)
       /\ guard[t].id = 2
       /\ available # <<>>
       /\ available[1].conn.id = 1
       /\ options.min_size = 1

\* A commit() or rollback() on handle h has returned Ok.
Succeeded(h) ==
    \E i \in 1..Len(conn_calls) :
       /\ conn_calls[i].handle = h
       /\ conn_calls[i].op \in {"commit", "rollback"}
       /\ conn_calls[i].ok
DropCalls(h) ==
    {i \in 1..Len(conn_calls) : conn_calls[i] = Call("drop_transaction", h, TRUE)}

BetweenCycles == w_pc \in {"requeue", "loop", "wait", "cancel"}
Zeros(n) == [i \in 1..n |-> 0]

\* C17: EPB diff correctness -- for every event and every sequence of result
\* blocks the worker receives, the sum of the deltas passed to the callback for
\* the event equals final_count - initial_count, and every delta passed is
\* strictly positive.
C17_EPBDiff ==
    /\ \A k \in 1..Len(cb_log) : cb_log[k].count > 0
    /\ (BetweenCycles /\ h_blocks > 0) =>
          \A i \in 1..Len(w_events) :
             h_sum[i] = EntryCounts(w_buffer)[i]
                          - EntryCounts(build_event_buffer(w_events))[i]

\* C18: callback contract -- within one poll cycle the callback is invoked at
\* most once per event name, only for events whose count changed, and with
\* delta >= 1, for every list of names register() accepts.
C18_CallbackContract ==
    /\ \A j, k \in 1..Len(cb_log) : j # k => cb_log[j].name # cb_log[k].name
    /\ \A k \in 1..Len(cb_log) : cb_log[k].count >= 1
    /\ w_pc = "callbacks" =>
          \A k \in 1..Len(cb_log) :
             EntryCounts(w_result)[cb_log[k].idx] # EntryCounts(w_buffer)[cb_log[k].idx]

\* C19: re-queue protocol -- the callbacks of a result block are made while the
\* stored EPB is still the one last queued, each entry reported at most once
\* with the difference between the block's count and the stored count; only
\* when they are done is the stored EPB replaced by the block, and then
\* queue_events is given that EPB before the worker waits again, so the next
\* block is diffed against counts already reported.
C19_RequeueProtocol ==
    /\ [](w_pc = "callbacks" =>
            /\ queued = w_buffer
            /\ cb_log \o w_fired = parse_event_counts(w_events, w_buffer, w_result)
            /\ \A j, k \in 1..Len(cb_log) : j # k => cb_log[j].idx # cb_log[k].idx
            /\ \A k \in 1..Len(cb_log) :
                  cb_log[k].count = EntryCounts(w_result)[cb_log[k].idx]
                                      - EntryCounts(w_buffer)[cb_log[k].idx])
    /\ [](w_pc = "requeue" => w_buffer = w_result /\ w_fired = <<>>)
    /\ [](w_pc \in {"loop", "wait"} => queued = w_buffer)
    /\ [][/\ (w_pc = "callbacks" /\ w_pc' # "callbacks") =>
                w_fired = <<>> /\ w_buffer' = w_result /\ w_pc' = "requeue"
          /\ (w_pc = "requeue" /\ w_pc' # "requeue") =>
                \/ w_pc' = "loop" /\ queued' = w_result
                \/ w_pc' = "ended"
          /\ (w_pc' = "wait" /\ w_pc # "wait") => w_pc = "loop"
          /\ (w_pc = "callbacks" /\ cb_log' # cb_log) =>
                w_buffer' = w_buffer /\ queued' = queued]_vars

\* C19 witness: two blocks have raised one event's count to 1 and then to 256;
\* the callbacks have reported 1 and 255, and the worker waits with the second
\* block queued.
C19_Witness ==
    /\ w_pc = "wait" /\ h_blocks = 2
    /\ w_events = <<NameA>>
    /\ queued = EventBlock(w_events, <<256>>)
    /\ cb_log = <<[name |-> NameA, count |-> 255, idx |-> 1]>>
    /\ h_sum = <<256>>

\* C20: register() accepts at most 15 names -- with more it returns an error
\* and leaves events, event_buffer and result_buffer as they were; with 15 or
\* fewer it returns Ok, stores the names and sets both buffers to the EPB of
\* those names with every count zero.
C20_RegisterLimit ==
    /\ [](/\ Len(events) <= MAX_EVENTS
          /\ result_buffer = event_buffer
          /\ event_buffer \in {<<>>, EventBlock(events, Zeros(Len(events)))})
    /\ [][\A names \in NamesGiven :
            AlerterRegister(names) =>
               IF Len(names) > MAX_EVENTS
               THEN /\ last_result' = "err"
                    /\ UNCHANGED <<events, event_buffer, result_buffer>>
               ELSE /\ last_result' = "ok"
                    /\ events' = names
                    /\ event_buffer' = EventBlock(names, Zeros(Len(names)))
                    /\ result_buffer' = event_buffer'
                    /\ EntryCounts(event_buffer') = Zeros(Len(names))]_vars

\* C20 witness: 15 names are registered, and a register() that came after
\* (with 16) has returned the error and left them in place.
C20_Witness ==
    /\ Len(events) = MAX_EVENTS
    /\ event_buffer = build_event_buffer(events)
    /\ last_result = "err"
    /\ ~running /\ w_pc = "idle"

\* C21: EPB layout -- build_event_buffer produces the version byte 1 followed,
\* for each registered event in registration order, by a one-byte name
\* length, exactly that many name bytes and a 4-byte little-endian count of 0;
\* the length byte equals the number of name bytes that follow it.
C21_EPBLayout ==
    last_result = "ok" =>
       /\ event_buffer = EventBlock(events, Zeros(Len(events)))
       /\ \A k \in 1..Len(event_buffer) : event_buffer[k] \in 0..(ByteRange - 1)
       /\ Len(EntryCounts(event_buffer)) = Len(events)

\* The owner of the alerter is outside every call and holds no thread handle:
\* no thread was started, or the stop() (or drop) that took the handle has returned.
Stopped == a_pc \in {"ready", "dropped"} /\ ~handle

\* The worker thread does not exist or has ended.
Terminated == w_pc \in {"idle", "exited"}

\* The worker's thread ends in this step.
ThreadEnds == w_pc # "ended" /\ w_pc' = "ended"

\* C22: stop semantics -- once stop() has returned, the worker thread has
\* terminated, is_running() is false and the callback is never invoked again;
\* join() returns only on an ended thread, and dropping the alerter is the
\* same stop.
C22_StopSemantics ==
    /\ [](Stopped => Terminated /\ ~running)
    /\ [][(a_pc \in {"joining", "drop_joining"} /\ a_pc' # a_pc)
             => w_pc = "exited" /\ ~running' /\ ~handle'
                /\ a_pc' = (IF a_pc = "joining" THEN "ready" ELSE "dropped")]_vars
    /\ [][(Stopped /\ Stopped') => cb_log' = cb_log]_vars
    /\ [][(a_pc = "ready" /\ a_pc' \in {"drop_joining", "dropped"}) => ~running' /\ ~handle']_vars

\* C22 witness: a stop() has returned on a worker that had made callbacks.
C22_Witness ==
    /\ a_pc = "ready" /\ ~handle /\ last_result = "ok"
    /\ w_pc = "exited" /\ cb_log # <<>> /\ cancelled # <<>>

\* C23 as stated: on every thread end taken after the running flag was cleared,
\* with an event queued, cancel_events has been issued exactly once, for the
\* most recently queued event id.
C23_CancelOnEveryExit ==
    [][(ThreadEnds /\ ~running /\ event_id > 0) => cancelled' = <<event_id>>]_vars

\* C23 amended: the worker issues cancel_events exactly once, for the most
\* recently queued event id, when it leaves the loop through the loop test or
\* the break, which it does whenever it sees the flag cleared there; a thread
\* ended by a failed connect or queue_events, or by a wait error seen with the
\* flag set, issues none, whether or not the flag was cleared.
C23_CancelOnStopExit ==
    /\ [][ThreadEnds =>
            IF w_pc = "cancel"
            THEN ~running /\ event_id > 0 /\ cancelled = <<>> /\ cancelled' = <<event_id>>
            ELSE cancelled' = <<>>]_vars
    /\ [][(w_pc = "loop" /\ w_pc' # w_pc) =>
            w_pc' = (IF running THEN "wait" ELSE "cancel")]_vars
    /\ [][(w_pc = "wait" /\ w_pc' \in {"cancel", "ended"}) =>
            w_pc' = (IF running THEN "ended" ELSE "cancel")]_vars
    /\ [][(w_pc = "requeue" /\ w_pc' = "ended") => cancelled' = <<>>]_vars

\* C23 witness: the worker queued twice, was stopped, and cancelled the second id.
C23_Witness == w_pc = "exited" /\ event_id = 2 /\ cancelled = <<2>> /\ Stopped

\* C24: stop terminates -- the worker re-checks the flag after every wait, so
\* a stop() that waits for the thread eventually returns, and so does a drop.
C24_StopTerminates ==
    /\ (a_pc = "joining") ~> (a_pc = "ready" /\ Terminated)
    /\ (a_pc = "drop_joining") ~> (a_pc = "dropped" /\ Terminated)

\* C24 witness: stop() has returned on a worker to which no event ever arrived.
C24_Witness ==
    /\ a_pc = "ready" /\ ~handle /\ w_pc = "exited"
    /\ h_blocks = 0 /\ cancelled = <<1>>

\* C25: start preconditions -- the flag and the handle are raised, and a worker
\* spawned, only by a start() with events registered and the flag clear, all
\* three at once; a call that fails leaves the flag, the handle and the worker
\* as they were; and a thread that ends leaves the flag false.
C25_StartPreconditions ==
    /\ [][((running' /\ ~running) \/ (handle' /\ ~handle) \/ (w_pc' = "connect" /\ w_pc # "connect"))
            => /\ events # <<>> /\ ~running /\ Terminated
               /\ running' /\ handle' /\ w_pc' = "connect" /\ last_result' = "ok"]_vars
    /\ [][(last_result' = "err" /\ last_result # "err")
            => running' = running /\ handle' = handle /\ workerVars' = workerVars]_vars
    /\ [][(w_pc' = "exited" /\ w_pc # "exited") => ~running']_vars
    /\ [](w_pc = "exited" => ~running)

\* C25 witness: a started worker ended on an error, with no stop(): the flag
\* is false again while the handle is still stored.
C25_Witness ==
    /\ a_pc = "ready" /\ handle /\ ~running
    /\ w_pc = "exited" /\ cancelled = <<>> /\ event_id > 0

\* The bytes a step appended to a history.
Added(before, after) == Drop(after, Len(before))

\* This step is a write(): it was given bytes, or handed bytes to the BufWriter.
WriteStep == h_written' # h_written \/ h_out' # h_out

\* This step is a turn of read()'s loop that took bytes from the socket.
ChunkStep == Len(socket') < Len(socket)

\* This step is a return from read().
ReadEnds == r_pc = "fill" /\ r_pc' = "idle"

\* C26: channel roundtrip -- in every mode and for every split into write()
\* calls and socket reads, what the reading side decodes and returns is what
\* was written, in order: always a prefix of it, never a decoding error, and
\* all of it once everything written has been flushed and taken.
C26_Roundtrip ==
    /\ IsPrefix(h_decoded, h_written)
    /\ IsPrefix(h_read, h_written)
    /\ r_result # "inflate"
    /\ (writer = <<>> /\ socket = <<>>) => h_read \o read_buf = h_written

\* C26 witness: compressed and encrypted, all bytes written have been read
\* back, over more socket reads than one.
C26_Witness ==
    /\ compressed /\ read_trans.some
    /\ Len(h_written) = MaxBytes /\ h_read = h_written
    /\ read_trans.pos > InputBufLen

\* C27: pipeline order -- what a write() hands to the socket's writer is the
\* translation of the compression of its argument, and what a turn of read()
\* enqueues is the decompression of the translation of the bytes received.
C27_PipelineOrder ==
    /\ [][WriteStep =>
            LET c == IF compressed THEN compress(compressor.encoder, Added(h_written, h_written')).out
                     ELSE Added(h_written, h_written')
                e == IF write_trans.some THEN translate(write_trans, c).out ELSE c
            IN Added(h_out, h_out') = e]_vars
    /\ [][(ChunkStep /\ r_result' # "inflate") =>
            LET got == SubSeq(socket, 1, Len(socket) - Len(socket'))
                d == IF read_trans.some THEN translate(read_trans, got).out ELSE got
                x == IF compressed THEN decompress(compressor.decoder, d).out ELSE d
            IN /\ Added(h_decoded, h_decoded') = x
               /\ read_buf' = read_buf \o x]_vars

\* C27 witness: with compression and a key, bytes were written and decoded,
\* and the two orders of the write pipeline give different bytes.
C27_Witness ==
    /\ compressed /\ write_trans.some /\ h_decoded # <<>>
    /\ translate(Translator(write_trans.plugin), compress(NewEncoder, h_written).out).out
         # compress(NewEncoder, translate(Translator(write_trans.plugin), h_written).out).out

\* C28: read(n) returns exactly n bytes, the next n of the decoded stream;
\* the rest stays in read_buf in order, so the results of successive calls
\* followed by read_buf are the decoded stream.
C28_ReadExact ==
    /\ [](h_read \o read_buf = h_decoded)
    /\ [][(ReadEnds /\ r_result' = "ok") =>
            /\ Len(r_out') = r_n
            /\ r_out' = SubSeq(h_decoded, Len(h_read) + 1, Len(h_read) + r_n)
            /\ h_read' = h_read \o r_out'
            /\ read_buf' = Drop(read_buf, r_n)]_vars

\* C28 witness: a later read() returned bytes and left some in read_buf.
C28_Witness ==
    /\ r_result = "ok" /\ r_out # <<>>
    /\ Len(h_read) > Len(r_out) /\ read_buf # <<>>

\* C29: read(n) ends with the unexpected-EOF error exactly when the socket
\* is closed and exhausted with fewer than n bytes decoded; it then returns
\* no data and leaves read_buf as it is.
C29_ReadEof ==
    /\ [][ReadEnds =>
            (r_result' = "eof" <=> (sock_closed /\ socket = <<>> /\ Len(read_buf) < r_n))]_vars
    /\ [][(ReadEnds /\ r_result' = "eof") =>
            r_out' = <<>> /\ read_buf' = read_buf /\ h_read' = h_read]_vars

\* C29 witness: a read() ended with EOF while bytes were buffered.
C29_Witness == r_result = "eof" /\ read_buf # <<>> /\ r_out = <<>> /\ r_pc = "idle"

\* C30 as stated: bytes reach the socket only by a flush(), which sends the
\* buffered bytes; no write() sends any.
C30_NothingBeforeFlush ==
    [][Len(h_wire') > Len(h_wire) =>
        ~WriteStep /\ h_wire' = h_wire \o writer /\ writer' = <<>>]_vars

\* C30 amended: write() keeps its bytes in the BufWriter while the bytes
\* buffered and the new ones together are below the buffer's capacity, and
\* sends bytes to the socket before any flush() only when they reach it;
\* flush() sends all that is buffered; the bytes reach the socket in write
\* order, none lost.
C30_BufferedUntilFull ==
    /\ [](h_wire \o writer = h_out)
    /\ [][(WriteStep /\ Len(writer) + Len(Added(h_out, h_out')) < BUFFER_SIZE) =>
            h_wire' = h_wire]_vars
    /\ [][(WriteStep /\ Len(writer) + Len(Added(h_out, h_out')) > BUFFER_SIZE) =>
            IsPrefix(h_wire \o writer, h_wire')]_vars
    /\ [][(~WriteStep /\ writer' # writer) => writer' = <<>> /\ h_wire' = h_out]_vars
    /\ [][Len(writer') <= BUFFER_SIZE]_vars

\* C30 witness: two compressed writes and no flush() (the first write left
\* nothing buffered to flush): the first write's bytes are on the socket,
\* the second's are held.
C30_Witness ==
    /\ compressed /\ ~write_trans.some
    /\ Len(h_written) = 2 /\ h_out = compress(NewEncoder, SubSeq(h_written, 1, 1)).out
                                      \o <<Z_LITERAL, h_written[2], Z_SYNC>>
    /\ h_wire = compress(NewEncoder, SubSeq(h_written, 1, 1)).out
    /\ writer = <<Z_LITERAL, h_written[2], Z_SYNC>>

\* C31: compression boundary -- the receiving side decompresses exactly the
\* bytes the peer sent after its switch: what read() decodes and returns is
\* what the peer wrote, before and after the switch, and decoding never fails.
C31_CompressionBoundary ==
    /\ IsPrefix(h_decoded, h_written)
    /\ IsPrefix(h_read, h_written)
    /\ r_result # "inflate"

\* C32: set_crypt_key installs two translators seeded alike, each moved on
\* only by its own direction: a write() leaves the read translator as it is
\* and moves the write translator on by the bytes it translated, a turn of
\* read() the other way round; every byte written or received after the call
\* goes through its translator.
C32_IndependentTranslators ==
    /\ [][(write_trans'.some /\ ~write_trans.some) =>
            read_trans' = write_trans' /\ write_trans'.pos = 0]_vars
    /\ [][WriteStep =>
            /\ read_trans' = read_trans
            /\ write_trans.some =>
                 write_trans'.pos = write_trans.pos + Len(Added(h_out, h_out'))]_vars
    /\ [][ChunkStep =>
            /\ write_trans' = write_trans
            /\ read_trans.some =>
                 read_trans'.pos = read_trans.pos + (Len(socket) - Len(socket'))]_vars
    /\ [](write_trans.some =>
            read_trans.pos + Len(socket) + Len(writer) = write_trans.pos)

\* C32 witness: with a key set, the write translator is ahead of the read
\* translator, which has translated bytes too.
C32_Witness ==
    /\ write_trans.some /\ read_trans.some
    /\ read_trans.pos > 0 /\ write_trans.pos > read_trans.pos
    /\ IsPrefix(h_read, h_written) /\ h_read # <<>>

\* The last byte of a sequence, -1 for none: what the stream refers back to.
LastByte(q) == IF q = <<>> THEN -1 ELSE q[Len(q)]

\* C33: streaming compression roundtrip -- every packet is recovered whole
\* from its own output by the other compressor's decompress(), in order, and
\* the stream goes on from packet to packet: the header is written once and
\* both sides keep the bytes seen so far to refer back to.
C33_StreamingRoundtrip ==
    /\ [](r_result # "inflate" /\ h_decoded = h_written)
    /\ [][h_out' # h_out =>
            /\ r_result' = "ok"
            /\ r_out' = Added(h_written, h_written')
            /\ Len(r_out') = r_n'
            /\ Added(h_out, h_out') = compress(peer_comp.encoder, r_out').out
            /\ (peer_comp.encoder.hdr /\ Added(h_out, h_out') # <<>>) =>
                   Added(h_out, h_out')[1] \in {Z_LITERAL, Z_REPEAT}]_vars
    /\ [](peer_comp.encoder.last = LastByte(h_written)
           /\ compressor.decoder.last = LastByte(h_written)
           /\ (h_out # <<>> => h_out[1] = Z_HEADER /\ peer_comp.encoder.hdr))

\* C33 witness: three packets of one byte, the later ones recovered from
\* outputs that refer back to the packet before.
C33_Witness ==
    /\ Len(h_written) = 3 /\ h_decoded = h_written /\ r_result = "ok"
    /\ h_written[1] = h_written[2] /\ h_written[2] = h_written[3]
    /\ h_out = <<Z_HEADER, Z_LITERAL, h_written[1], Z_SYNC, Z_REPEAT, Z_SYNC, Z_REPEAT, Z_SYNC>>

\* C34: poisoning -- once a read() has failed with EOF, the next operation
\* on the channel fails at once: no call gets into read()'s loop, where the
\* socket is read, no bytes are returned and none are written.
C34_Poisoning ==
    [][(r_result = "eof" /\ r_pc = "idle") =>
        r_pc' = "idle" /\ h_read' = h_read /\ ~WriteStep]_vars

\* C40: translator pairing -- the read and the write translator are both
\* installed, with the same cipher, or both absent; set_crypt_key with a
\* plugin name it does not know installs neither and changes nothing else,
\* one it knows installs both; without translators the bytes go out and come
\* in as they were written.
C40_TranslatorPairing ==
    /\ [](read_trans.some = write_trans.some /\ read_trans.plugin = write_trans.plugin)
    /\ [][(h_plugin' # h_plugin /\ h_plugin' \notin {"ChaCha64", "ChaCha", "Arc4"}) =>
            /\ ~read_trans'.some /\ ~write_trans'.some
            /\ UNCHANGED chanVars]_vars
    /\ [][(h_plugin' # h_plugin /\ h_plugin' \in {"ChaCha64", "ChaCha", "Arc4"}) =>
            read_trans'.some /\ write_trans'.some]_vars
    /\ [](~write_trans.some => h_out = h_written /\ h_read \o read_buf \o socket \o writer = h_written)

\* C40 witness: after set_crypt_key with an unknown plugin, bytes were
\* written, sent and read back in plaintext.
C40_Witness ==
    /\ h_plugin = "Unknown" /\ ~read_trans.some /\ ~write_trans.some
    /\ h_wire = h_written /\ h_read = h_written /\ h_read # <<>>

\* C35: in_use accounting -- in every reachable state in_use equals the number
\* of connections checked out through PoolGuards that have not been dropped; a
\* connection removed with take() no longer counts, and in_use never underflows.
C35_InUseAccounting ==
    /\ in_use = Cardinality({t \in Threads : Holding(t)})
    /\ in_use >= 0

\* C36: no lost wakeup -- no get() is blocked in the condition-variable wait
\* while the pool is open and either a valid connection sits in the available
\* queue or available.len() + in_use < max_size: a notification sent between
\* the thread's last failed attempt and its wait is never missed.
C36_NoLostWakeup ==
    \A t \in Threads :
       (pc[t] = "waiting" /\ ~closed) =>
          /\ PopInvalid(available, invalidate_version) = <<>>
          /\ Len(available) + in_use >= options.max_size

\* C37: close() versus in-flight get() -- once close() has returned, no get()
\* call returns a guard and the pool opens no new physical connection, also
\* for get() calls that had passed their closed check when close() ran.
C37_CloseStopsInFlightGet ==
    [][closed =>
          /\ opened' = opened
          /\ \A t \in Threads : ~Holding(t) => ~Holding(t)']_vars

\* C38: closed pool stays empty -- in every state after close() has been called
\* the available queue is empty; a guard dropped on a closed pool decrements
\* in_use and its connection is discarded instead of being queued; and closed
\* never becomes false again.
C38_ClosedStaysEmpty ==
    [][/\ closed' => available' = <<>>
       /\ closed => closed'
       /\ \A t \in Threads :
             (closed /\ Holding(t) /\ pc'[t] = "dropped") =>
                /\ in_use > 0 /\ in_use' = in_use - 1
                /\ guard[t] \notin Idle(available')
                /\ guard'[t] = NoConn]_vars

\* C38 witness: a guard has been dropped on the closed pool; the queue is empty
\* and no connection is counted in use any more.
C38_Witness ==
    /\ h_closedDrop /\ closed /\ available = <<>> /\ in_use = 0
    /\ \E t \in Threads : pc[t] = "dropped" /\ guard[t] = NoConn

\* C39: failed connection creation -- when get() tries to open a new physical
\* connection and the connect fails, get() returns that error, in_use is not
\* incremented and no entry is added to available: the failed get() consumes
\* no pool capacity.
C39_FailedConnect ==
    [][\A t \in Threads :
          /\ (pc[t] = "connect" /\ pc'[t] # "connect") =>
                \/ /\ pc'[t] = "connect_err"
                   /\ opened' = opened /\ guard'[t] = guard[t]
                   /\ in_use' = in_use /\ available' = available
                \/ /\ pc'[t] = "create_commit"
                   /\ opened' = opened + 1
          /\ pc'[t] = "connect_err" => pc[t] \in {"connect", "connect_err"}]_vars

\* C39 witness: a get() has returned the connect error, and the pool of one
\* still had room: the other thread holds a guard on a newly opened connection,
\* the only one counted in use.
C39_Witness ==
    \E t, u \in Threads :
       /\ pc[t] = "connect_err" /\ guard[t] = NoConn
       /\ Holding(u) /\ h_handout[u] = "new"
       /\ in_use = 1 /\ available = <<>> /\ options.max_size = 1

====
